---- MODULE Spec2Model ----
(***************************************************************************)
(* The request-to-result pipeline of the gateway: the submission handler   *)
(* (routes/query.js), the queue processor (queues/processor.js), the       *)
(* result cache, the in-flight tracker, the retry utility and the webhook  *)
(* delivery.  Every await of a handler is one step; the store operations   *)
(* (GET, SETEX, DEL) and the queue operations are atomic.                  *)
(***************************************************************************)
EXTENDS Integers, Sequences, FiniteSets, TLC

\* ------------------------------------------------------------------ bounds
MaxJobs == 2        \* jobs ever created in one behaviour
MaxReqs == 2        \* submission handlers running at the same time
NumHashes == 2      \* distinct fingerprints submitted
MaxConcurrency == 2 \* largest QUEUE_CONCURRENCY set in the environment
MaxFaults == 3      \* calls of the backend or of a webhook that throw in one behaviour
MaxRetriesArg == 9  \* largest maxRetries option passed to webhook.deliver
MaxFailsArg == 10   \* most POSTs an endpoint fails before it succeeds
MaxTextLen == 4     \* longest query text, in characters
MaxContextLen == 2  \* most keys written in a context object
MaxClears == 2      \* DELETE /admin/cache handlers running at the same time
MaxStdoutLen == 3   \* longest output of the backend process, in characters
MaxWords == 2       \* longest query given to the intent detection, in words
MaxFinished == 152  \* jobs that reach a terminal state in one retention behaviour
MaxFailEvery == 3   \* sparsest workload: every MaxFailEvery-th job fails for good
MaxLookupId == 3    \* largest job id a retention behaviour looks up
MaxGets == 3        \* calls of cache.get counted in one behaviour

\* ------------------------------------------------------- program constants
Attempts == 3               \* defaultJobOptions.attempts
DefaultMaxRetries == 3      \* withRetry / webhook.deliver default maxRetries
ClaudeMaxRetries == 3       \* config.claude.maxRetries
PriorityHigh == 1           \* queue.add priority for priority === 'high'
PriorityNormal == 10        \* queue.add priority for anything else
DefaultConcurrency == 5     \* config.queue.concurrency without QUEUE_CONCURRENCY
BackoffDelay == 2000        \* defaultJobOptions.backoff.delay, in ms
DefaultBaseDelay == 1000    \* withRetry default baseDelay, in ms
DefaultMaxDelay == 30000    \* withRetry default maxDelay, in ms
RemoveOnComplete == 100     \* defaultJobOptions.removeOnComplete
RemoveOnFail == 50          \* defaultJobOptions.removeOnFail

\* ------------------------------------------------------------------ values
JobIds == 1..MaxJobs
Reqs == 1..MaxReqs
Hashes == 1..NumHashes
NoJobId == 0                \* the store's nil for a marker key
Null == -1                  \* JavaScript null
Results == {0, 1, 2}        \* values the backend resolves with; 0 is the JSON number 0
Nil == "nil"                \* the store's nil for a cache key
Priorities == {"high", "normal"}

VARIABLES
  dedupEnabled,   \* config.features.dedupEnabled
  concurrency,    \* config.queue.concurrency
  store,          \* cache keys:  fingerprint -> stored string, or Nil
  marker,         \* dedup keys:  fingerprint -> job id, or NoJobId
  jobs,           \* the queue's jobs: job id -> job record
  wait,           \* the wait list, in the order the jobs are taken
  nextId,         \* next fresh job id
  reqs,           \* the running submission handlers
  answer,         \* the response an HTTP handler sent in the step just taken
  faults,         \* backend and webhook calls that have thrown so far
  lookup,         \* the running GET /query/:jobId handler
  call            \* a service call made on its own: its inputs and its result

vars == <<dedupEnabled, concurrency, store, marker, jobs, wait, nextId, reqs, answer, faults,
          lookup, call>>

\* ----------------------------------------------------------- pure helpers
\* JavaScript truthiness of a parsed result: if (cached)
Truthy(v) == v # Null /\ v # 0

\* JSON.stringify(value) as cache.set stores it
JSONStringify(v) ==
  CASE v = 0 -> "0"
    [] v = 1 -> "{\"answer\":1}"
    [] v = 2 -> "{\"answer\":2}"
    [] OTHER -> "null"

\* JSON.parse(data) as cache.get returns it
JSONParse(s) ==
  IF \E v \in Results : JSONStringify(v) = s
  THEN CHOOSE v \in Results : JSONStringify(v) = s
  ELSE Null

\* Mutant of CacheGet: a stored value that parses to a falsy value taken
\* for a miss.
CacheGetTruthy(st, h) ==
  IF st[h] # Nil /\ st[h] # "" /\ Truthy(JSONParse(st[h])) THEN JSONParse(st[h]) ELSE Null

\* cache.get(hash): the parsed value of a non-empty stored string, else null
CacheGet(st, h) == IF st[h] # Nil /\ st[h] # "" THEN JSONParse(st[h]) ELSE Null

\* cache.set(hash, value): SETEX of the stringified value
CacheSet(st, h, v) == [st EXCEPT ![h] = JSONStringify(v)]

\* cache.delete(hash): DEL; the expiry of the key's TTL removes it likewise
CacheDelete(st, h) == [st EXCEPT ![h] = Nil]

\* cache.clear(): DEL of every key under the cache prefix
CacheClear(st) == [h \in DOMAIN st |-> Nil]

\* dedup.getJobId(hash)
GetJobId(mk, h) == mk[h]

\* dedup.markInFlight(hash, jobId): SETEX, whatever the key held
MarkInFlight(mk, h, id) == [mk EXCEPT ![h] = id]

\* dedup.clearInFlight(hash): DEL
ClearInFlight(mk, h) == [mk EXCEPT ![h] = NoJobId]

\* withRetry(fn, {maxRetries}) against an operation that fails its first
\* `fails` invocations: the loop from `attempt` on.  outcome is "ok" (fn
\* resolved), "throw" (the last error rethrown) or "undefined" (the loop body
\* never ran); calls counts the invocations of fn.
RECURSIVE WithRetryFrom(_, _, _)
WithRetryFrom(attempt, fails, maxRetries) ==
  IF attempt > maxRetries THEN [outcome |-> "undefined", calls |-> attempt - 1]
  ELSE IF attempt > fails THEN [outcome |-> "ok", calls |-> attempt]
  ELSE IF attempt = maxRetries THEN [outcome |-> "throw", calls |-> attempt]
  ELSE WithRetryFrom(attempt + 1, fails, maxRetries)

\* Mutant of WithRetry: the loop bound taken strictly (attempt < maxRetries).
WithRetryOneLess(fails, maxRetries) == WithRetryFrom(1, fails, maxRetries - 1)

WithRetry(fails, maxRetries) == WithRetryFrom(1, fails, maxRetries)

\* Math.min
Min(a, b) == IF a <= b THEN a ELSE b

\* Mutant of RetryDelay: the delay never capped.
RetryDelayUncapped(attempt, baseDelay, maxDelay) == baseDelay * 2 ^ (attempt - 1)

\* The sleep of withRetry after the failed attempt number `attempt`:
\* Math.min(baseDelay * Math.pow(2, attempt - 1), maxDelay)
RetryDelay(attempt, baseDelay, maxDelay) == Min(baseDelay * 2 ^ (attempt - 1), maxDelay)

\* webhook.deliver(url, payload) with the default options
Deliver(fails) == WithRetry(fails, DefaultMaxRetries)

\* webhook.deliver(url, payload, {maxRetries}) against an endpoint that fails
\* its first `fails` POSTs (non-success status, network error or abort)
DeliverWith(fails, maxRetries) == WithRetry(fails, maxRetries)

\* claude.execute(query, options)
Execute(fails) == WithRetry(fails, ClaudeMaxRetries)

\* config.queue.concurrency: parseInt(process.env.QUEUE_CONCURRENCY, 10) || 5,
\* env = 0 standing for an unset variable (NaN) as well as for "0"
ConfigConcurrency(env) == IF env = 0 THEN DefaultConcurrency ELSE env

\* Mutant of PriorityOf: the two priority numbers swapped.
PriorityOfSwapped(priority) == IF priority = "high" THEN PriorityNormal ELSE PriorityHigh

\* queue.add option: priority === 'high' ? 1 : 10
PriorityOf(priority) == IF priority = "high" THEN PriorityHigh ELSE PriorityNormal

\* ------------------------------------------------------- the fingerprint
\* Query texts are sequences of characters, upper and lower case and
\* whitespace; a context is the sequence of its entries in the order its
\* keys were written, with string values.
Chars == {"a", "A", " "}
Texts == UNION {[1..n -> Chars] : n \in 0..MaxTextLen}
ContextKeys == {"audience", "lang", "query"}
ContextValues == {<<"a">>}
ContextEntries == [key : ContextKeys, value : ContextValues]
Contexts ==
  {c \in UNION {[1..n -> ContextEntries] : n \in 0..MaxContextLen} :
     \A i, k \in 1..Len(c) : c[i].key = c[k].key => i = k}

\* String.prototype.trim
RECURSIVE TrimStart(_)
TrimStart(t) == IF t # <<>> /\ Head(t) = " " THEN TrimStart(Tail(t)) ELSE t

RECURSIVE TrimEnd(_)
TrimEnd(t) ==
  IF t # <<>> /\ t[Len(t)] = " " THEN TrimEnd(SubSeq(t, 1, Len(t) - 1)) ELSE t

Trim(t) == TrimEnd(TrimStart(t))

\* String.prototype.toLowerCase
ToLowerCase(t) == [i \in 1..Len(t) |-> IF t[i] = "A" THEN "a" ELSE t[i]]

\* replace(/\s+/g, ' '): every run of whitespace becomes one space
RECURSIVE CollapseWhitespace(_)
CollapseWhitespace(t) ==
  IF t = <<>> THEN <<>>
  ELSE IF Head(t) = " " THEN <<" ">> \o CollapseWhitespace(TrimStart(t))
  ELSE <<Head(t)>> \o CollapseWhitespace(Tail(t))

\* normalizeQuery(query)
normalizeQuery(query) == CollapseWhitespace(ToLowerCase(Trim(query)))

\* Object spread: the entries assigned one by one onto obj, a key that obj
\* already has keeping its position and taking the new value.
RECURSIVE SpreadInto(_, _)
SpreadInto(obj, entries) ==
  IF entries = <<>> THEN obj
  ELSE LET e == Head(entries)
           at == {i \in 1..Len(obj) : obj[i].key = e.key}
       IN  SpreadInto(IF at = {} THEN Append(obj, e)
                      ELSE [i \in 1..Len(obj) |-> IF i \in at THEN e ELSE obj[i]],
                      Tail(entries))

\* The hashed payload JSON.stringify({ query: normalized, ...context }): the
\* entries of the object in their insertion order.
Payload(query, context) ==
  SpreadInto(<<[key |-> "query", value |-> normalizeQuery(query)]>>, context)

\* generateQueryHash(query, context): the digest of the payload, taken to be
\* free of collisions.
generateQueryHash(query, context) == Payload(query, context)

\* A context as a key-value map, whatever the order of its keys.
ContextMap(c) == {c[i] : i \in 1..Len(c)}

\* ------------------------------------------------------------- the queue
\* A job: state, progress, attemptsMade, returnvalue and failedReason as the
\* queue keeps them; hash, webhook from job.data; prio from the options;
\* class is the priority the request asked for; pc, result and error are the
\* processor's position and locals while the job is active; delay is
\* the backoff, in ms, a delayed job waits before it is promoted.
NoJob == [state |-> "none", hash |-> 0, class |-> "-", prio |-> 0, webhook |-> FALSE,
          attemptsMade |-> 0, progress |-> 0, pc |-> "-", result |-> Null,
          error |-> "-", returnvalue |-> Null, failedReason |-> "-", delay |-> 0]

InState(js, s) == {j \in JobIds : js[j].state = s}

RECURSIVE SeqToSet(_)
SeqToSet(q) == IF q = <<>> THEN {} ELSE {Head(q)} \cup SeqToSet(Tail(q))

\* The queue's priority insertion: a job goes behind the waiting jobs whose
\* priority number is not larger than its own.
InsertByPriority(q, js, j, p) ==
  LET count == Cardinality({i \in SeqToSet(q) : js[i].prio <= p})
  IN  SubSeq(q, 1, count) \o <<j>> \o SubSeq(q, count + 1, Len(q))

\* Mutant of CanTake: the pool stops taking jobs once a job has failed.
CanTakeUntilFailure(js, c) ==
  Cardinality(InState(js, "active")) < c /\ InState(js, "failed") = {}

\* Mutant of CanTake: one job more than the configured concurrency.
CanTakeOneMore(js, c) == Cardinality(InState(js, "active")) <= c

\* queue.process(config.queue.concurrency, ...): a job is taken only while
\* fewer than `concurrency` jobs are active.
CanTake(js, c) == Cardinality(InState(js, "active")) < c

\* Mutant of Backoff: the exponent counted from the retry, not the attempt.
BackoffFromZero(attemptsMade) == (2 ^ (attemptsMade - 1) - 1) * BackoffDelay

\* backoff {type: 'exponential', delay}: the delay before the retry that
\* follows the attemptsMade-th failed attempt.
Backoff(attemptsMade) == (2 ^ attemptsMade - 1) * BackoffDelay

\* Mutant of Retries: the attempts option ignored, no failed job retried.
RetriesNever(attemptsMade) == FALSE

\* Mutant of Retries: one attempt more than configured.
RetriesOneMore(attemptsMade) == attemptsMade <= Attempts

\* attempts: 3.  A job that has failed attemptsMade times is retried while
\* that is fewer than the configured attempts.
Retries(attemptsMade) == attemptsMade < Attempts

\* ---------------------------------------------------- submission handlers
IdleReq == [pc |-> "idle", hash |-> 0, priority |-> "normal", webhook |-> FALSE,
            jobId |-> NoJobId, prior |-> {}]

NoAnswer == [hash |-> 0, status |-> "none", jobId |-> NoJobId, result |-> Null]

\* The handlers that have not answered yet.
Running == {r \in Reqs : reqs[r].pc # "idle"}

\* Job j was answered status=queued: its handler has returned.
Acked(j) == jobs[j].state # "none" /\ \A r \in Reqs : reqs[r].jobId # j

\* Jobs of fingerprint h answered queued and still waiting or active in
\* their first attempt.
FirstAttemptJobs(h) ==
  {j \in JobIds : /\ jobs[j].hash = h
                  /\ jobs[j].state \in {"waiting", "active"}
                  /\ jobs[j].attemptsMade = 0
                  /\ Acked(j)}

\* GET /query/:jobId between its awaits: job is the job as queue.getJob
\* loaded it.
IdleLookup == [pc |-> "idle", jobId |-> NoJobId, job |-> NoJob]

NoCall == [op |-> "none"]

\* The state after start-up, for a given configuration, before any call.
Started(dedup, c) ==
  /\ dedupEnabled = dedup
  /\ concurrency = c
  /\ store = [h \in Hashes |-> Nil]
  /\ marker = [h \in Hashes |-> NoJobId]
  /\ jobs = [j \in JobIds |-> NoJob]
  /\ wait = <<>>
  /\ nextId = 1
  /\ reqs = [r \in Reqs |-> IdleReq]
  /\ answer = NoAnswer
  /\ faults = 0
  /\ lookup = IdleLookup

InitWith(dedup, c) == Started(dedup, c) /\ call = NoCall

Init ==
  \E dedup \in BOOLEAN, env \in 0..MaxConcurrency : InitWith(dedup, ConfigConcurrency(env))

\* Mutant of AfterCacheMiss: the in-flight lookup made whatever the setting.
AfterCacheMissAlways(dedup) == "dedup"

\* Where the handler goes after a cache miss: to dedup.getJobId only if
\* config.features.dedupEnabled, else straight to queue.add.
AfterCacheMiss(dedup) == IF dedup THEN "dedup" ELSE "add"

\* POST /query up to its first await: cache.get(hash) and the cached answer.
Submit(r, h, priority, wh) ==
  /\ reqs[r].pc = "idle"
  /\ \A q \in Reqs : q < r => reqs[q].pc # "idle"
  /\ (nextId - 1) + Cardinality(Running) < MaxJobs
  /\ LET cached == CacheGet(store, h)
     IN  IF Truthy(cached)
         THEN /\ answer' = [hash |-> h, status |-> "cached", jobId |-> NoJobId, result |-> cached]
              /\ reqs' = reqs
         ELSE /\ answer' = NoAnswer
              /\ reqs' = [reqs EXCEPT ![r] =
                   [IdleReq EXCEPT !.pc = AfterCacheMiss(dedupEnabled),
                                   !.hash = h, !.priority = priority, !.webhook = wh,
                                   !.prior = IF dedupEnabled /\ store[h] = Nil
                                             THEN FirstAttemptJobs(h) ELSE {}]]
  /\ UNCHANGED <<dedupEnabled, concurrency, store, marker, jobs, wait, nextId, faults>>
  /\ UNCHANGED <<lookup, call>>

\* dedup.getJobId(hash) and the duplicate answer.
SubmitDedup(r) ==
  /\ reqs[r].pc = "dedup"
  /\ LET existingJobId == GetJobId(marker, reqs[r].hash)
     IN  IF existingJobId # NoJobId
         THEN /\ answer' = [hash |-> reqs[r].hash, status |-> "duplicate",
                            jobId |-> existingJobId, result |-> Null]
              /\ reqs' = [reqs EXCEPT ![r] = IdleReq]
         ELSE /\ answer' = NoAnswer
              /\ reqs' = [reqs EXCEPT ![r] = [@ EXCEPT !.pc = "add", !.prior = {}]]
  /\ UNCHANGED <<dedupEnabled, concurrency, store, marker, jobs, wait, nextId, faults>>
  /\ UNCHANGED <<lookup, call>>

\* queue.add({query, webhookUrl, context}, {priority, jobId}), and with
\* deduplication disabled the queued answer.
QueueAdd(r) ==
  /\ reqs[r].pc = "add"
  /\ nextId <= MaxJobs
  /\ LET j == nextId
         p == PriorityOf(reqs[r].priority)
     IN  /\ jobs' = [jobs EXCEPT ![j] =
               [NoJob EXCEPT !.state = "waiting", !.hash = reqs[r].hash,
                             !.class = reqs[r].priority, !.prio = p,
                             !.webhook = reqs[r].webhook]]
         /\ wait' = InsertByPriority(wait, jobs, j, p)
         /\ nextId' = nextId + 1
         /\ IF dedupEnabled
            THEN /\ reqs' = [reqs EXCEPT ![r] = [@ EXCEPT !.pc = "mark", !.jobId = j]]
                 /\ answer' = NoAnswer
            ELSE /\ reqs' = [reqs EXCEPT ![r] = IdleReq]
                 /\ answer' = [hash |-> reqs[r].hash, status |-> "queued",
                               jobId |-> j, result |-> Null]
  /\ UNCHANGED <<dedupEnabled, concurrency, store, marker, faults>>
  /\ UNCHANGED lookup

SubmitAdd(r) == QueueAdd(r) /\ UNCHANGED call

\* The callback URL the request of handler r carries when it carries one;
\* NoUrl stands for a request without webhookUrl.
NoUrl == 0
UrlOf(r) == r

\* The same step with the callback URLs told apart: call.stored[j] is the
\* webhookUrl in the data of job j.
SubmitAddUrl(r) ==
  /\ call.op = "posts"
  /\ QueueAdd(r)
  /\ call' = [call EXCEPT !.stored[nextId] = IF reqs[r].webhook THEN UrlOf(r) ELSE NoUrl]

\* dedup.markInFlight(hash, job.id) and the queued answer.
SubmitMark(r) ==
  /\ reqs[r].pc = "mark"
  /\ marker' = MarkInFlight(marker, reqs[r].hash, reqs[r].jobId)
  /\ answer' = [hash |-> reqs[r].hash, status |-> "queued",
                jobId |-> reqs[r].jobId, result |-> Null]
  /\ reqs' = [reqs EXCEPT ![r] = IdleReq]
  /\ UNCHANGED <<dedupEnabled, concurrency, store, jobs, wait, nextId, faults>>
  /\ UNCHANGED <<lookup, call>>

\* request.body.query: absent, or a text.
Queries == {[present |-> FALSE, text |-> <<>>],
            [present |-> TRUE, text |-> <<>>],
            [present |-> TRUE, text |-> <<"a">>]}

\* The fingerprint (as an index of the store) of a request without context:
\* the last one for the text that normalizes to the empty text, the first
\* one for the other texts of Queries.
HashIndex(text) == IF normalizeQuery(text) = <<>> THEN NumHashes ELSE 1

\* Mutant of IsFalsy: only an absent query is rejected.
IsAbsent(query) == ~query.present

\* !query: an absent query and the empty string are falsy.
IsFalsy(query) == ~query.present \/ query.text = <<>>

BadRequest == [hash |-> 0, status |-> "400", jobId |-> NoJobId, result |-> Null,
               error |-> "Query is required"]

\* POST /query from the validation of the body on: a falsy query is answered
\* 400 at once, any other goes on to the cache lookup.
Post(r, query, priority, wh) ==
  IF IsFalsy(query)
  THEN /\ reqs[r].pc = "idle"
       /\ answer' = BadRequest
       /\ UNCHANGED <<dedupEnabled, concurrency, store, marker, jobs, wait, nextId, reqs, faults>>
       /\ UNCHANGED <<lookup, call>>
  ELSE Submit(r, HashIndex(query.text), priority, wh)

\* Mutant of AfterStoreError: the error swallowed and taken for an absent
\* entry, the handler going on to queue.add.
AfterStoreErrorAsMiss(req) == [req EXCEPT !.pc = "add", !.prior = {}]

\* The handler after an awaited store read rejected: nothing catches the
\* rejection, the handler ends.
AfterStoreError(req) == IdleReq

\* POST /query when the store fails: cache.get(hash) rejects in a handler
\* that starts, or dedup.getJobId(hash) rejects in handler r; the request is
\* answered with the error.
SubmitStoreError(r, h) ==
  /\ \/ /\ reqs[r].pc = "idle"
        /\ \A q \in Reqs : q < r => reqs[q].pc # "idle"
        /\ reqs' = [reqs EXCEPT ![r] = AfterStoreError([IdleReq EXCEPT !.hash = h])]
     \/ /\ reqs[r].pc = "dedup" /\ reqs[r].hash = h
        /\ reqs' = [reqs EXCEPT ![r] = AfterStoreError(reqs[r])]
  /\ answer' = [hash |-> h, status |-> "error", jobId |-> NoJobId, result |-> Null]
  /\ UNCHANGED <<dedupEnabled, concurrency, store, marker, jobs, wait, nextId, faults>>
  /\ UNCHANGED <<lookup, call>>

\* ------------------------------------------------------------ the worker
\* The queue hands the head of the wait list to the processor.
Take(j) ==
  /\ wait # <<>>
  /\ j = Head(wait)
  /\ CanTake(jobs, concurrency)
  /\ wait' = Tail(wait)
  /\ jobs' = [jobs EXCEPT ![j] = [@ EXCEPT !.state = "active", !.pc = "get"]]
  /\ UNCHANGED <<dedupEnabled, concurrency, store, marker, nextId, reqs, faults>>
  /\ UNCHANGED <<lookup, call>>
  /\ answer' = NoAnswer

\* Processor: the cache re-check.  On a hit progress(100) and the cached
\* value is delivered or returned; on a miss progress(10) and claude.execute
\* is started.
WorkerCacheGet(j) ==
  /\ jobs[j].state = "active" /\ jobs[j].pc = "get"
  /\ LET cached == CacheGet(store, jobs[j].hash)
     IN  jobs' = [jobs EXCEPT ![j] =
           IF Truthy(cached)
           THEN [@ EXCEPT !.progress = 100, !.result = cached,
                          !.pc = IF jobs[j].webhook THEN "hithook" ELSE "hitreturn"]
           ELSE [@ EXCEPT !.progress = 10, !.pc = "exec"]]
  /\ UNCHANGED <<dedupEnabled, concurrency, store, marker, wait, nextId, reqs, faults>>
  /\ UNCHANGED <<lookup, call>>
  /\ answer' = NoAnswer

\* Processor: claude.execute settles, after its own retries.  The backend
\* fails its first `fails` invocations and then answers r.
ExecuteSettles(j, fails, r) ==
  /\ jobs[j].state = "active" /\ jobs[j].pc = "exec"
  /\ IF Execute(fails).outcome = "ok"
     THEN /\ jobs' = [jobs EXCEPT ![j] = [@ EXCEPT !.progress = 80, !.result = r, !.pc = "set"]]
          /\ faults' = faults
     ELSE /\ faults < MaxFaults
          /\ jobs' = [jobs EXCEPT ![j] = [@ EXCEPT !.error = "execution", !.pc = "catch"]]
          /\ faults' = faults + 1
  /\ UNCHANGED <<dedupEnabled, concurrency, store, marker, wait, nextId, reqs>>
  /\ UNCHANGED lookup
  /\ answer' = NoAnswer

WorkerExecute(j, fails, r) == ExecuteSettles(j, fails, r) /\ UNCHANGED call

\* The same step with the backend processes counted: call.spawned[j] is the
\* number of processes spawned for job j so far.
SpawningExecute(j, fails, r) ==
  /\ call.op = "spawns"
  /\ ExecuteSettles(j, fails, r)
  /\ call' = [call EXCEPT !.spawned[j] = @ + Execute(fails).calls]

\* Mutant of WorkerCacheSet: the result never written to the cache.
WorkerCacheSetDropped(j) ==
  /\ jobs[j].state = "active" /\ jobs[j].pc = "set"
  /\ jobs' = [jobs EXCEPT ![j] = [@ EXCEPT !.pc = "clear"]]
  /\ UNCHANGED <<dedupEnabled, concurrency, store, marker, wait, nextId, reqs, faults>>
  /\ UNCHANGED <<lookup, call>>
  /\ answer' = NoAnswer

\* Processor: cache.set(hash, result).
WorkerCacheSet(j) ==
  /\ jobs[j].state = "active" /\ jobs[j].pc = "set"
  /\ store' = CacheSet(store, jobs[j].hash, jobs[j].result)
  /\ jobs' = [jobs EXCEPT ![j] = [@ EXCEPT !.pc = "clear"]]
  /\ UNCHANGED <<dedupEnabled, concurrency, marker, wait, nextId, reqs, faults>>
  /\ UNCHANGED <<lookup, call>>
  /\ answer' = NoAnswer

\* Processor: dedup.clearInFlight(hash), progress(90), and without a
\* webhook progress(100) and the return.
WorkerClear(j) ==
  /\ jobs[j].state = "active" /\ jobs[j].pc = "clear"
  /\ marker' = ClearInFlight(marker, jobs[j].hash)
  /\ jobs' = [jobs EXCEPT ![j] =
       IF jobs[j].webhook
       THEN [@ EXCEPT !.progress = 90, !.pc = "hook"]
       ELSE [@ EXCEPT !.progress = 100, !.pc = "return"]]
  /\ UNCHANGED <<dedupEnabled, concurrency, store, wait, nextId, reqs, faults>>
  /\ UNCHANGED <<lookup, call>>
  /\ answer' = NoAnswer

\* Processor: webhook.deliver settles, after its own retries, on the miss
\* path (pc "hook") and on the cache-hit path (pc "hithook").  The endpoint
\* fails the first `fails` POSTs.
DeliverySettles(j, fails) ==
  /\ jobs[j].state = "active" /\ jobs[j].pc \in {"hook", "hithook"}
  /\ IF Deliver(fails).outcome = "throw"
     THEN /\ faults < MaxFaults
          /\ jobs' = [jobs EXCEPT ![j] = [@ EXCEPT !.error = "webhook", !.pc = "catch"]]
          /\ faults' = faults + 1
     ELSE /\ jobs' = [jobs EXCEPT ![j] =
               IF jobs[j].pc = "hithook"
               THEN [@ EXCEPT !.pc = "hitreturn"]
               ELSE [@ EXCEPT !.progress = 100, !.pc = "return"]]
          /\ faults' = faults
  /\ UNCHANGED <<dedupEnabled, concurrency, store, marker, wait, nextId, reqs>>
  /\ UNCHANGED lookup
  /\ answer' = NoAnswer

WorkerWebhook(j, fails) == DeliverySettles(j, fails) /\ UNCHANGED call

\* Mutant of DeliverTo: the URL of the request handled last.
DeliverToLatest(stored, j) ==
  IF \E i \in DOMAIN stored : stored[i] # NoUrl
  THEN stored[CHOOSE i \in DOMAIN stored :
                stored[i] # NoUrl /\ \A k \in DOMAIN stored : stored[k] # NoUrl => k <= i]
  ELSE stored[j]

\* The url webhook.deliver is called with: webhookUrl of job.data.
DeliverTo(stored, j) == stored[j]

\* The same step with the callback URLs told apart: call.posted holds the
\* URLs a POST was sent to, call.for the jobs a POST was made for.
WorkerWebhookUrl(j, fails) ==
  /\ call.op = "posts"
  /\ DeliverySettles(j, fails)
  /\ call' = [call EXCEPT !.posted = @ \cup {DeliverTo(call.stored, j)},
                          !.for = @ \cup {j}]
WorkerCatch(j) ==
  /\ jobs[j].state = "active" /\ jobs[j].pc = "catch"
  /\ marker' = ClearInFlight(marker, jobs[j].hash)
  /\ jobs' = [jobs EXCEPT ![j] = [@ EXCEPT !.pc = "throw"]]
  /\ UNCHANGED <<dedupEnabled, concurrency, store, wait, nextId, reqs, faults>>
  /\ UNCHANGED <<lookup, call>>
  /\ answer' = NoAnswer

\* The processor returned (the cached value from pc "hitreturn", the fresh
\* result from pc "return"): the queue completes the job with the value.
Complete(j) ==
  /\ jobs[j].state = "active" /\ jobs[j].pc \in {"return", "hitreturn"}
  /\ jobs' = [jobs EXCEPT ![j] = [@ EXCEPT !.state = "completed", !.pc = "-",
                                           !.returnvalue = jobs[j].result,
                                           !.result = Null, !.error = "-"]]
  /\ UNCHANGED <<dedupEnabled, concurrency, store, marker, wait, nextId, reqs, faults>>
  /\ UNCHANGED <<lookup, call>>
  /\ answer' = NoAnswer

\* The processor threw: the queue counts the attempt and either delays the
\* job by the backoff for a retry (attempts: 3) or fails it for good.
Fail(j) ==
  /\ jobs[j].state = "active" /\ jobs[j].pc = "throw"
  /\ jobs' = [jobs EXCEPT ![j] =
       [@ EXCEPT !.state = IF Retries(jobs[j].attemptsMade + 1) THEN "delayed" ELSE "failed",
                 !.attemptsMade = jobs[j].attemptsMade + 1,
                 !.failedReason = jobs[j].error,
                 !.delay = IF Retries(jobs[j].attemptsMade + 1)
                           THEN Backoff(jobs[j].attemptsMade + 1) ELSE 0,
                 !.pc = "-", !.result = Null, !.error = "-"]]
  /\ UNCHANGED <<dedupEnabled, concurrency, store, marker, wait, nextId, reqs, faults>>
  /\ UNCHANGED <<lookup, call>>
  /\ answer' = NoAnswer

\* The delay of a delayed job has passed, jobs[j].delay ms after the failed
\* attempt: back to the wait list.
Promote(j) ==
  /\ jobs[j].state = "delayed"
  /\ jobs' = [jobs EXCEPT ![j] = [@ EXCEPT !.state = "waiting", !.delay = 0]]
  /\ wait' = InsertByPriority(wait, jobs, j, jobs[j].prio)
  /\ UNCHANGED <<dedupEnabled, concurrency, store, marker, nextId, reqs, faults>>
  /\ UNCHANGED <<lookup, call>>
  /\ answer' = NoAnswer

\* ------------------------------------------------------ the status route
\* JSON null in the error field of a status answer.
NoError == "null"

\* Mutant of StatusReply: the failure reason reported whatever the state.
StatusReplyAnyError(job, id, state) ==
  [hash |-> 0, status |-> "status", jobId |-> id, state |-> state,
   progress |-> job.progress,
   result |-> IF state = "completed" THEN job.returnvalue ELSE Null,
   error |-> job.failedReason]

\* The answer of GET /query/:jobId: job is the job object queue.getJob
\* returned, state what job.getState() resolved with.
StatusReply(job, id, state) ==
  [hash |-> 0, status |-> "status", jobId |-> id, state |-> state,
   progress |-> job.progress,
   result |-> IF state = "completed" THEN job.returnvalue ELSE Null,
   error |-> IF state = "failed" THEN job.failedReason ELSE NoError]

NotFound(id) == [hash |-> 0, status |-> "404", jobId |-> id, result |-> Null,
                 error |-> "Job not found"]

\* GET /query/:jobId up to the end of its first await: queue.getJob(jobId)
\* loads the job as it is now, or finds none.
StatusGetJob(id) ==
  /\ lookup.pc = "idle"
  /\ IF jobs[id].state = "none"
     THEN /\ answer' = NotFound(id)
          /\ lookup' = lookup
     ELSE /\ answer' = NoAnswer
          /\ lookup' = [pc |-> "getState", jobId |-> id, job |-> jobs[id]]
  /\ UNCHANGED <<dedupEnabled, concurrency, store, marker, jobs, wait, nextId, reqs, faults>>
  /\ UNCHANGED call

\* GET /query/:jobId: job.getState() reads the job's state as it is now, and
\* the handler answers.
StatusGetState ==
  /\ lookup.pc = "getState"
  /\ answer' = StatusReply(lookup.job, lookup.jobId, jobs[lookup.jobId].state)
  /\ lookup' = IdleLookup
  /\ UNCHANGED <<dedupEnabled, concurrency, store, marker, jobs, wait, nextId, reqs, faults>>
  /\ UNCHANGED call

\* ------------------------------------------------------ the admin routes
AdminAnswer(op, id, ok) ==
  [hash |-> 0, status |-> op, jobId |-> id, result |-> Null, success |-> ok]

\* Remove(q, j): the wait list without job j.
RECURSIVE Remove(_, _)
Remove(q, j) == IF q = <<>> THEN <<>>
                ELSE IF Head(q) = j THEN Remove(Tail(q), j)
                ELSE <<Head(q)>> \o Remove(Tail(q), j)

\* POST /admin/queue/:id/retry: queue.getJob(id) and, if there is a job,
\* job.retry(): the reason and the finish time are dropped, and a failed job
\* goes back to the end of the wait list; for a job that has not failed
\* job.retry() rejects.
AdminRetry(id) ==
  /\ IF jobs[id].state = "none"
     THEN /\ answer' = AdminAnswer("retry", id, TRUE)
          /\ UNCHANGED <<jobs, wait>>
     ELSE IF jobs[id].state = "failed"
     THEN /\ answer' = AdminAnswer("retry", id, TRUE)
          /\ jobs' = [jobs EXCEPT ![id] = [@ EXCEPT !.state = "waiting", !.failedReason = "-"]]
          /\ wait' = Append(wait, id)
     ELSE /\ answer' = AdminAnswer("retry", id, FALSE)
          /\ jobs' = [jobs EXCEPT ![id] = [@ EXCEPT !.failedReason = "-"]]
          /\ wait' = wait
  /\ UNCHANGED <<dedupEnabled, concurrency, store, marker, nextId, reqs, faults>>
  /\ UNCHANGED <<lookup, call>>

\* DELETE /admin/queue/:id: queue.getJob(id) and, if there is a job,
\* job.remove(): the job is deleted from the queue, unless a worker holds it
\* (an active job is locked), for which job.remove() rejects.
AdminRemove(id) ==
  /\ IF jobs[id].state = "none"
     THEN /\ answer' = AdminAnswer("remove", id, TRUE)
          /\ UNCHANGED <<jobs, wait>>
     ELSE IF jobs[id].state = "active"
     THEN /\ answer' = AdminAnswer("remove", id, FALSE)
          /\ UNCHANGED <<jobs, wait>>
     ELSE /\ answer' = AdminAnswer("remove", id, TRUE)
          /\ jobs' = [jobs EXCEPT ![id] = NoJob]
          /\ wait' = Remove(wait, id)
  /\ UNCHANGED <<dedupEnabled, concurrency, store, marker, nextId, reqs, faults>>
  /\ UNCHANGED <<lookup, call>>

\* client.keys(prefix + '*'): the fingerprints that have a cache entry.
CacheKeys(st) == {h \in DOMAIN st : st[h] # Nil}

\* client.del(...keys)
Del(st, keys) == [h \in DOMAIN st |-> IF h \in keys THEN Nil ELSE st[h]]

Cleared(n) == [hash |-> 0, status |-> "cleared", jobId |-> NoJobId, result |-> Null,
               cleared |-> n]

\* DELETE /admin/cache, cache.clear() up to its first await: the keys under
\* the cache prefix are listed; with none the handler answers 0 at once.
\* call.pending holds the key lists of the handlers that have not deleted
\* yet.
AdminCacheClearKeys ==
  /\ call.op = "clear" /\ Len(call.pending) < MaxClears
  /\ LET keys == CacheKeys(store)
     IN  IF keys = {}
         THEN /\ answer' = Cleared(0)
              /\ call' = call
         ELSE /\ answer' = NoAnswer
              /\ call' = [call EXCEPT !.pending = Append(@, keys)]
  /\ UNCHANGED <<dedupEnabled, concurrency, store, marker, jobs, wait, nextId, reqs, faults>>
  /\ UNCHANGED lookup

\* DELETE /admin/cache, the rest of cache.clear(): the listed keys are
\* deleted and their number, keys.length, is the answer.
AdminCacheClearDel(i) ==
  /\ call.op = "clear" /\ i \in 1..Len(call.pending)
  /\ store' = Del(store, call.pending[i])
  /\ answer' = Cleared(Cardinality(call.pending[i]))
  /\ call' = [call EXCEPT !.pending = SubSeq(@, 1, i - 1) \o SubSeq(@, i + 1, Len(@))]
  /\ UNCHANGED <<dedupEnabled, concurrency, marker, jobs, wait, nextId, reqs, faults>>
  /\ UNCHANGED lookup

\* ------------------------------------------------- calls made on their own
\* A call of webhook.deliver settles: posts counts the POSTs it made.
DeliverSettles ==
  /\ call.op = "deliver" /\ call.outcome = "pending"
  /\ LET res == DeliverWith(call.fails, call.maxRetries)
     IN  call' = [call EXCEPT !.outcome = res.outcome, !.posts = res.calls]
  /\ UNCHANGED <<dedupEnabled, concurrency, store, marker, jobs, wait, nextId, reqs, faults>>
  /\ UNCHANGED <<answer, lookup>>

\* The delay options withRetry is called with: the defaults (as the webhook
\* and the backend service leave them), a short base delay, a low cap.
RetryOptions == {[baseDelay |-> DefaultBaseDelay, maxDelay |-> DefaultMaxDelay],
                 [baseDelay |-> 10, maxDelay |-> DefaultMaxDelay],
                 [baseDelay |-> DefaultBaseDelay, maxDelay |-> 3000]}

\* One pass of the loop of withRetry(fn, {maxRetries, baseDelay, maxDelay})
\* against an fn that fails its first `fails` invocations: the invocation
\* of fn, and after a failure the rethrow or the sleep.  calls counts the
\* invocations of fn, delays lists the sleeps in ms.
WithRetryPass ==
  /\ call.op = "withRetry" /\ call.outcome = "running"
  /\ call' =
       IF call.attempt > call.maxRetries THEN [call EXCEPT !.outcome = "undefined"]
       ELSE IF call.attempt > call.fails
       THEN [call EXCEPT !.outcome = "ok", !.calls = @ + 1]
       ELSE IF call.attempt = call.maxRetries
       THEN [call EXCEPT !.outcome = "throw", !.calls = @ + 1]
       ELSE [call EXCEPT !.calls = @ + 1, !.attempt = @ + 1,
                         !.delays = Append(@, RetryDelay(call.attempt, call.baseDelay,
                                                         call.maxDelay))]
  /\ UNCHANGED <<dedupEnabled, concurrency, store, marker, jobs, wait, nextId, reqs, faults>>
  /\ UNCHANGED <<answer, lookup>>

\* What one run of the backend process can produce: its exit code (null
\* when a signal killed it, as the timeout does), its standard output (a
\* digit, a letter and whitespace) and its standard error.
StdoutChars == {"1", "h", " "}
Stdouts == UNION {[1..n -> StdoutChars] : n \in 0..MaxStdoutLen}
Stderrs == {<<>>, <<"h">>}
ExitCodes == {0, 1, Null}

\* JSON.parse(stdout) succeeds: between optional whitespace the text is a
\* JSON value, here a number written with the digit 1.
IsJSON(t) == Trim(t) # <<>> /\ \A i \in 1..Len(Trim(t)) : Trim(t)[i] = "1"

\* The number a text of digits 1 denotes.
RECURSIVE JSONNumber(_)
JSONNumber(s) == IF s = <<>> THEN 0 ELSE 10 * JSONNumber(SubSeq(s, 1, Len(s) - 1)) + 1

NoInvocation == [settled |-> "none", format |-> "-", number |-> Null, response |-> <<>>,
                 code |-> Null, stderr |-> <<>>]

\* Mutant of OnClose: output that does not parse rejects the invocation.
OnCloseStrict(code, stdout, stderr) ==
  IF code = 0 /\ IsJSON(stdout)
  THEN [NoInvocation EXCEPT !.settled = "resolve", !.format = "json",
                            !.number = JSONNumber(Trim(stdout))]
  ELSE [NoInvocation EXCEPT !.settled = "reject", !.format = "exit",
                            !.code = code, !.stderr = stderr]

\* proc.on('close', code => ...): with code 0 the parsed output or, when it
\* does not parse, {response: stdout.trim(), format: 'text'} is resolved;
\* any other code rejects with the code and the captured stderr.
OnClose(code, stdout, stderr) ==
  IF code = 0
  THEN IF IsJSON(stdout)
       THEN [NoInvocation EXCEPT !.settled = "resolve", !.format = "json",
                                 !.number = JSONNumber(Trim(stdout))]
       ELSE [NoInvocation EXCEPT !.settled = "resolve", !.format = "text",
                                 !.response = Trim(stdout)]
  ELSE [NoInvocation EXCEPT !.settled = "reject", !.format = "exit",
                            !.code = code, !.stderr = stderr]

\* proc.on('error', reject): the process could not be spawned.
OnError == [NoInvocation EXCEPT !.settled = "reject", !.format = "spawn"]

\* One pass of the loop of withRetry inside claude.execute: the backend
\* process is spawned once more and settles the invocation; a rejected
\* invocation is rethrown after the last attempt and retried before it.
\* call.proc is what the process did, call.last how the invocation settled.
ExecutePass(spawned, code, stdout, stderr) ==
  /\ call.op = "execute" /\ call.outcome = "running"
  /\ call.attempt <= ClaudeMaxRetries
  /\ LET inv == IF spawned THEN OnClose(code, stdout, stderr) ELSE OnError
         ran == [call EXCEPT !.calls = @ + 1, !.last = inv,
                             !.proc = [spawned |-> spawned, code |-> code,
                                       stdout |-> stdout, stderr |-> stderr]]
     IN  call' = IF inv.settled = "resolve" THEN [ran EXCEPT !.outcome = "ok"]
                 ELSE IF call.attempt = ClaudeMaxRetries THEN [ran EXCEPT !.outcome = "throw"]
                 ELSE [ran EXCEPT !.attempt = @ + 1]
  /\ UNCHANGED <<dedupEnabled, concurrency, store, marker, jobs, wait, nextId, reqs, faults>>
  /\ UNCHANGED <<answer, lookup>>

\* The values a caller can cache: the backend's results and JSON null.
CacheValues == Results \cup {Null}

\* Calls of the cache service.  call.held[h] holds the value last set for h
\* and not removed since, and is empty otherwise.
CacheSetCall(h, v) ==
  /\ call.op \in {"cache", "set", "get", "delete", "clear", "expire"}
  /\ store' = CacheSet(store, h, v)
  /\ call' = [op |-> "set", hash |-> h, out |-> Null,
              held |-> [call.held EXCEPT ![h] = {v}]]
  /\ UNCHANGED <<dedupEnabled, concurrency, marker, jobs, wait, nextId, reqs, faults>>
  /\ UNCHANGED <<answer, lookup>>

CacheGetCall(h) ==
  /\ call.op \in {"cache", "set", "get", "delete", "clear", "expire"}
  /\ call' = [call EXCEPT !.op = "get", !.hash = h, !.out = CacheGet(store, h)]
  /\ UNCHANGED <<dedupEnabled, concurrency, store, marker, jobs, wait, nextId, reqs, faults>>
  /\ UNCHANGED <<answer, lookup>>

CacheDeleteCall(h) ==
  /\ call.op \in {"cache", "set", "get", "delete", "clear", "expire"}
  /\ store' = CacheDelete(store, h)
  /\ call' = [op |-> "delete", hash |-> h, out |-> Null,
              held |-> [call.held EXCEPT ![h] = {}]]
  /\ UNCHANGED <<dedupEnabled, concurrency, marker, jobs, wait, nextId, reqs, faults>>
  /\ UNCHANGED <<answer, lookup>>

CacheClearCall ==
  /\ call.op \in {"cache", "set", "get", "delete", "clear", "expire"}
  /\ store' = CacheClear(store)
  /\ call' = [op |-> "clear", hash |-> 0,
              out |-> Cardinality({h \in Hashes : store[h] # Nil}),
              held |-> [h \in Hashes |-> {}]]
  /\ UNCHANGED <<dedupEnabled, concurrency, marker, jobs, wait, nextId, reqs, faults>>
  /\ UNCHANGED <<answer, lookup>>

\* The TTL given to SETEX elapses for the entry of h.
CacheExpire(h) ==
  /\ call.op \in {"cache", "set", "get", "delete", "clear", "expire"}
  /\ store[h] # Nil
  /\ store' = CacheDelete(store, h)
  /\ call' = [op |-> "expire", hash |-> h, out |-> Null,
              held |-> [call.held EXCEPT ![h] = {}]]
  /\ UNCHANGED <<dedupEnabled, concurrency, marker, jobs, wait, nextId, reqs, faults>>
  /\ UNCHANGED <<answer, lookup>>

\* generateQueryHash applied to two requests.
HashBoth ==
  /\ call.op = "hash" /\ ~call.done
  /\ call' = [call EXCEPT !.done = TRUE,
                          !.hash1 = generateQueryHash(call.query1, call.context1),
                          !.hash2 = generateQueryHash(call.query2, call.context2)]
  /\ UNCHANGED <<dedupEnabled, concurrency, store, marker, jobs, wait, nextId, reqs, faults>>
  /\ UNCHANGED <<answer, lookup>>

\* -------------------------------------------------------- specification
\* The steps of the running submission handlers.
Handlers ==
  \/ \E r \in Reqs : SubmitDedup(r)
  \/ \E r \in Reqs : SubmitAdd(r)
  \/ \E r \in Reqs : SubmitMark(r)

\* The steps of the queue and of its processor for jobs without a webhook.
Workers ==
  \/ \E j \in JobIds : Take(j)
  \/ \E j \in JobIds : WorkerCacheGet(j)
  \/ \E j \in JobIds : WorkerCacheSet(j)
  \/ \E j \in JobIds : WorkerClear(j)
  \/ \E j \in JobIds : WorkerCatch(j)
  \/ \E j \in JobIds : Complete(j)
  \/ \E j \in JobIds : Fail(j)
  \/ \E j \in JobIds : Promote(j)

\* The backend settles with one of the answers RS, or throws.
Backend(RS) ==
  \E j \in JobIds, fails \in 0..ClaudeMaxRetries, r \in RS : WorkerExecute(j, fails, r)

\* A webhook delivery settles.
Webhooks == \E j \in JobIds, fails \in 0..DefaultMaxRetries : WorkerWebhook(j, fails)

\* The whole gateway under every configuration and every request.
Next ==
  \/ \E r \in Reqs, h \in Hashes, p \in Priorities, wh \in BOOLEAN : Submit(r, h, p, wh)
  \/ Handlers
  \/ Workers
  \/ Backend(Results)
  \/ Webhooks

Spec == Init /\ [][Next]_vars

\* Deduplication enabled; requests of normal priority without a webhook.
InitDedup == InitWith(TRUE, MaxConcurrency)

NextDedup ==
  \/ \E r \in Reqs, h \in Hashes : Submit(r, h, "normal", FALSE)
  \/ Handlers
  \/ Workers
  \/ Backend(Results)

SpecDedup == InitDedup /\ [][NextDedup]_vars

\* Deduplication enabled; requests of normal priority for one query, each
\* with a webhook.
NextHook ==
  \/ \E r \in Reqs : Submit(r, 1, "normal", TRUE)
  \/ Handlers
  \/ Workers
  \/ Backend(Results)
  \/ Webhooks

SpecHook == InitDedup /\ [][NextHook]_vars

\* The queue under every concurrency setting: deduplication disabled,
\* requests of both priorities for one query, one handler at a time, and a
\* backend that answers 0 or 1.
InitQueue == \E env \in 0..MaxConcurrency : InitWith(FALSE, ConfigConcurrency(env))

NextQueue ==
  \/ \E p \in Priorities : Submit(1, 1, p, FALSE)
  \/ \E r \in Reqs : SubmitAdd(r)
  \/ Workers
  \/ Backend({0, 1})

SpecQueue == InitQueue /\ [][NextQueue]_vars

\* Status lookups for one job of normal priority, with or without a
\* webhook, and for unknown ids; deduplication disabled, the default
\* concurrency, a backend that answers 1 or 2.
InitStatus == InitWith(FALSE, ConfigConcurrency(0))

StatusLookups ==
  \/ \E id \in JobIds : StatusGetJob(id)
  \/ StatusGetState

NextStatus ==
  \/ nextId = 1 /\ \E wh \in BOOLEAN : Submit(1, 1, "normal", wh)
  \/ \E r \in Reqs : SubmitAdd(r)
  \/ Workers
  \/ Backend({1, 2})
  \/ Webhooks
  \/ StatusLookups

SpecStatus == InitStatus /\ [][NextStatus]_vars

\* One worker under fair scheduling: the queue and the processor take every
\* step that stays possible, and the backend and the webhook endpoint always
\* answer.  Finitely many requests of normal priority for one query, with
\* and without a webhook; deduplication disabled.
InitLive == InitWith(FALSE, 1)

NextLive ==
  \/ \E wh \in BOOLEAN : Submit(1, 1, "normal", wh)
  \/ \E r \in Reqs : SubmitAdd(r)
  \/ Workers
  \/ Backend({1})
  \/ Webhooks

Fairness ==
  \A j \in JobIds :
    /\ WF_vars(Take(j))
    /\ WF_vars(WorkerCacheGet(j))
    /\ WF_vars(\E fails \in 0..ClaudeMaxRetries, r \in {1} : WorkerExecute(j, fails, r))
    /\ WF_vars(WorkerCacheSet(j))
    /\ WF_vars(WorkerClear(j))
    /\ WF_vars(\E fails \in 0..DefaultMaxRetries : WorkerWebhook(j, fails))
    /\ WF_vars(WorkerCatch(j))
    /\ WF_vars(Complete(j))
    /\ WF_vars(Fail(j))
    /\ WF_vars(Promote(j))

SpecLive == InitLive /\ [][NextLive]_vars /\ Fairness

\* webhook.deliver called on its own with maxRetries >= 1, against every
\* endpoint behaviour.
InitDeliver ==
  \E n \in 1..MaxRetriesArg, k \in 0..MaxFailsArg :
    /\ Started(FALSE, DefaultConcurrency)
    /\ call = [op |-> "deliver", maxRetries |-> n, fails |-> k,
               outcome |-> "pending", posts |-> 0]

NextDeliver == DeliverSettles

SpecDeliver == InitDeliver /\ [][NextDeliver]_vars

\* Deduplication disabled; concurrent requests of normal priority without a
\* webhook, a backend that answers 1 and never fails.
InitNoDedup == InitWith(FALSE, MaxConcurrency)

NextNoDedup ==
  \/ \E r \in Reqs, h \in Hashes : Submit(r, h, "normal", FALSE)
  \/ \E r \in Reqs : SubmitAdd(r)
  \/ \E j \in JobIds : Take(j)
  \/ \E j \in JobIds : WorkerCacheGet(j)
  \/ \E j \in JobIds : WorkerExecute(j, 0, 1)
  \/ \E j \in JobIds : WorkerCacheSet(j)
  \/ \E j \in JobIds : WorkerClear(j)
  \/ \E j \in JobIds : Complete(j)

SpecNoDedup == InitNoDedup /\ [][NextNoDedup]_vars

\* The admin routes at work on one job of normal priority, with or without
\* a webhook; deduplication enabled, the default concurrency, a backend that
\* answers 1 or throws.
InitAdmin == InitWith(TRUE, ConfigConcurrency(0))

NextAdmin ==
  \/ nextId = 1 /\ \E wh \in BOOLEAN : Submit(1, 1, "normal", wh)
  \/ Handlers
  \/ Workers
  \/ Backend({1})
  \/ Webhooks
  \/ \E id \in JobIds : AdminRetry(id)
  \/ \E id \in JobIds : AdminRemove(id)

SpecAdmin == InitAdmin /\ [][NextAdmin]_vars

\* Administrative cache clears while one job of normal
\* priority, with or without a webhook, is worked on; deduplication enabled,
\* the default concurrency, a backend that answers 1 or throws.
InitClear ==
  /\ Started(TRUE, ConfigConcurrency(0))
  /\ call = [op |-> "clear", pending |-> <<>>]

NextClear ==
  \/ nextId = 1 /\ \E wh \in BOOLEAN : Submit(1, 1, "normal", wh)
  \/ Handlers
  \/ Workers
  \/ Backend({1})
  \/ Webhooks
  \/ AdminCacheClearKeys
  \/ \E i \in 1..MaxClears : AdminCacheClearDel(i)

SpecClear == InitClear /\ [][NextClear]_vars

\* withRetry called on its own with every maxRetries and delay options,
\* against every behaviour of the operation.
InitRetry ==
  \E n \in 0..MaxRetriesArg, k \in 0..MaxFailsArg, o \in RetryOptions :
    /\ Started(FALSE, DefaultConcurrency)
    /\ call = [op |-> "withRetry", maxRetries |-> n, fails |-> k,
               baseDelay |-> o.baseDelay, maxDelay |-> o.maxDelay,
               attempt |-> 1, calls |-> 0, delays |-> <<>>, outcome |-> "running"]

NextRetry == WithRetryPass

SpecRetry == InitRetry /\ [][NextRetry]_vars

\* claude.execute called on its own, against every behaviour of the
\* backend process.
InitExecute ==
  /\ Started(FALSE, DefaultConcurrency)
  /\ call = [op |-> "execute", attempt |-> 1, calls |-> 0, outcome |-> "running",
             last |-> NoInvocation,
             proc |-> [spawned |-> FALSE, code |-> Null, stdout |-> <<>>, stderr |-> <<>>]]

NextExecute ==
  \/ \E code \in ExitCodes, stdout \in Stdouts, stderr \in Stderrs :
       ExecutePass(TRUE, code, stdout, stderr)
  \/ ExecutePass(FALSE, Null, <<>>, <<>>)

SpecExecute == InitExecute /\ [][NextExecute]_vars

\* Deduplication enabled and a store that can fail any read of a
\* submission; requests of normal priority for one query, a backend that
\* answers 1 and never fails.
NextStoreError ==
  \/ \E r \in Reqs : Submit(r, 1, "normal", FALSE)
  \/ \E r \in Reqs : SubmitStoreError(r, 1)
  \/ Handlers
  \/ \E j \in JobIds : Take(j)
  \/ \E j \in JobIds : WorkerCacheGet(j)
  \/ \E j \in JobIds : WorkerExecute(j, 0, 1)
  \/ \E j \in JobIds : WorkerCacheSet(j)
  \/ \E j \in JobIds : WorkerClear(j)
  \/ \E j \in JobIds : Complete(j)

SpecStoreError == InitDedup /\ [][NextStoreError]_vars

\* generateQueryHash called on its own for every two requests.
InitHash ==
  \E t1, t2 \in Texts, c1, c2 \in Contexts :
    /\ Started(FALSE, DefaultConcurrency)
    /\ call = [op |-> "hash", done |-> FALSE,
               query1 |-> t1, context1 |-> c1, hash1 |-> <<>>,
               query2 |-> t2, context2 |-> c2, hash2 |-> <<>>]

NextHash == HashBoth

SpecHash == InitHash /\ [][NextHash]_vars

\* The cache service called on its own, in every order of set, get, delete
\* and clear, with entries expiring at any time.
InitCache ==
  /\ Started(FALSE, DefaultConcurrency)
  /\ call = [op |-> "cache", hash |-> 0, out |-> Null, held |-> [h \in Hashes |-> {}]]

NextCache ==
  \/ \E h \in Hashes, v \in CacheValues : CacheSetCall(h, v)
  \/ \E h \in Hashes : CacheGetCall(h)
  \/ \E h \in Hashes : CacheDeleteCall(h)
  \/ CacheClearCall
  \/ \E h \in Hashes : CacheExpire(h)

SpecCache == InitCache /\ [][NextCache]_vars

\* Deduplication enabled; requests of normal priority with an absent, an
\* empty or a proper query, a backend that answers 1 and never fails.
NextValidate ==
  \/ \E r \in Reqs, q \in Queries : Post(r, q, "normal", FALSE)
  \/ Handlers
  \/ \E j \in JobIds : Take(j)
  \/ \E j \in JobIds : WorkerCacheGet(j)
  \/ \E j \in JobIds : WorkerExecute(j, 0, 1)
  \/ \E j \in JobIds : WorkerCacheSet(j)
  \/ \E j \in JobIds : WorkerClear(j)
  \/ \E j \in JobIds : Complete(j)

SpecValidate == InitDedup /\ [][NextValidate]_vars

\* ------------------------------------------------------- callback URLs
\* Requests for one query, of normal priority, each with its own callback
\* URL or with none; deduplication enabled, a backend that answers 1 and
\* an endpoint that accepts the first POST.
InitPosts ==
  /\ Started(TRUE, MaxConcurrency)
  /\ call = [op |-> "posts", stored |-> [j \in JobIds |-> NoUrl], posted |-> {},
             for |-> {}]

NextPosts ==
  \/ \E r \in Reqs, wh \in BOOLEAN : Submit(r, 1, "normal", wh)
  \/ \E r \in Reqs : SubmitDedup(r)
  \/ \E r \in Reqs : SubmitAddUrl(r)
  \/ \E r \in Reqs : SubmitMark(r)
  \/ \E j \in JobIds : Take(j)
  \/ \E j \in JobIds : WorkerCacheGet(j)
  \/ \E j \in JobIds : WorkerExecute(j, 0, 1)
  \/ \E j \in JobIds : WorkerCacheSet(j)
  \/ \E j \in JobIds : WorkerClear(j)
  \/ \E j \in JobIds : WorkerWebhookUrl(j, 0)
  \/ \E j \in JobIds : Complete(j)

SpecPosts == InitPosts /\ [][NextPosts]_vars

\* --------------------------------------------------- backend invocations
\* One job of normal priority, with or without a webhook, worked on under
\* the default configuration (deduplication disabled, no admin routes,
\* concurrency 5), later requests for its query, a backend that answers 1
\* or 0 or throws, and the backend processes counted per job.
InitSpawns ==
  /\ Started(FALSE, ConfigConcurrency(0))
  /\ call = [op |-> "spawns", spawned |-> [j \in JobIds |-> 0]]

NextSpawns ==
  \/ nextId = 1 /\ \E wh \in BOOLEAN : Submit(1, 1, "normal", wh)
  \/ SubmitAdd(1)
  \/ Workers
  \/ \E j \in JobIds, fails \in 0..ClaudeMaxRetries, r \in {0, 1} : SpawningExecute(j, fails, r)
  \/ Webhooks

SpecSpawns == InitSpawns /\ [][NextSpawns]_vars

\* -------------------------------------------------------------- metrics
\* The cache service next to the counters of the metrics registry:
\* call.cacheHits and call.cacheMisses are the values of the two counters,
\* call.gets the number of cache.get calls made so far, call.out what the
\* last of them returned.
NoMetrics == [op |-> "metrics", cacheHits |-> 0, cacheMisses |-> 0, gets |-> 0,
              hash |-> 0, out |-> Null, hit |-> FALSE]

\* cache.get(hash) with the counters: the call logs 'Cache hit' or 'Cache
\* miss' and returns; no statement of it, and none anywhere else, calls
\* inc() on cacheHits or cacheMisses.
CountedGet(h) ==
  /\ call.op = "metrics" /\ call.gets < MaxGets
  /\ call' = [call EXCEPT !.gets = @ + 1, !.hash = h, !.out = CacheGet(store, h),
                          !.hit = (store[h] # Nil /\ store[h] # "")]
  /\ answer' = NoAnswer
  /\ UNCHANGED <<dedupEnabled, concurrency, store, marker, jobs, wait, nextId, reqs, faults>>
  /\ UNCHANGED lookup

\* cache.set(hash, value) next to the counters.
CountedSet(h, v) ==
  /\ call.op = "metrics"
  /\ store' = CacheSet(store, h, v)
  /\ answer' = NoAnswer
  /\ UNCHANGED <<dedupEnabled, concurrency, marker, jobs, wait, nextId, reqs, faults>>
  /\ UNCHANGED <<lookup, call>>

\* cache.delete(hash) next to the counters.
CountedDelete(h) ==
  /\ call.op = "metrics"
  /\ store' = CacheDelete(store, h)
  /\ answer' = NoAnswer
  /\ UNCHANGED <<dedupEnabled, concurrency, marker, jobs, wait, nextId, reqs, faults>>
  /\ UNCHANGED <<lookup, call>>

InitMetrics == Started(FALSE, DefaultConcurrency) /\ call = NoMetrics

NextMetrics ==
  \/ \E h \in Hashes : CountedGet(h)
  \/ \E h \in Hashes, v \in CacheValues : CountedSet(h, v)
  \/ \E h \in Hashes : CountedDelete(h)

SpecMetrics == InitMetrics /\ [][NextMetrics]_vars

\* ------------------------------------------------------------- shutdown
\* The process and its shutdown handler (index.js).  call.pc is "running"
\* until a SIGTERM or SIGINT arrives, "closing" while queryQueue.close() is
\* awaited, "closed" once it resolved and "exited" after process.exit(0);
\* call.processing holds the jobs that were active when close was called.
ProcessRunning == [op |-> "process", pc |-> "running", processing |-> {}]

\* SIGTERM or SIGINT: shutdown() runs up to its first await, the call of
\* queryQueue.close(), which stops the queue from fetching jobs.
Signal ==
  /\ call.op = "process" /\ call.pc = "running"
  /\ call' = [call EXCEPT !.pc = "closing", !.processing = InState(jobs, "active")]
  /\ answer' = NoAnswer
  /\ UNCHANGED <<dedupEnabled, concurrency, store, marker, jobs, wait, nextId, reqs, faults>>
  /\ UNCHANGED lookup

\* Mutant of QueueClose: the close not awaited.
QueueCloseNotAwaited ==
  /\ call.op = "process" /\ call.pc = "closing"
  /\ call' = [call EXCEPT !.pc = "closed"]
  /\ answer' = NoAnswer
  /\ UNCHANGED <<dedupEnabled, concurrency, store, marker, jobs, wait, nextId, reqs, faults>>
  /\ UNCHANGED lookup

\* await queryQueue.close() resolves: the processor calls that were running
\* have settled and the queue's connections are released.
QueueClose ==
  /\ call.op = "process" /\ call.pc = "closing"
  /\ InState(jobs, "active") = {}
  /\ call' = [call EXCEPT !.pc = "closed"]
  /\ answer' = NoAnswer
  /\ UNCHANGED <<dedupEnabled, concurrency, store, marker, jobs, wait, nextId, reqs, faults>>
  /\ UNCHANGED lookup

\* await fastify.close(); process.exit(0).
ProcessExit ==
  /\ call.op = "process" /\ call.pc = "closed"
  /\ call' = [call EXCEPT !.pc = "exited"]
  /\ answer' = NoAnswer
  /\ UNCHANGED <<dedupEnabled, concurrency, store, marker, jobs, wait, nextId, reqs, faults>>
  /\ UNCHANGED lookup

\* The queue fetches jobs and promotes delayed ones until close is called.
Fetching == call.pc = "running"

\* Processor calls and request handlers run until the queue is closed.
Serving == call.pc \in {"running", "closing"}

\* Deduplication disabled, requests of normal priority for one query
\* without a webhook, one after the other; a backend that answers 1 or
\* throws, the admin retry route, and a shutdown at any moment.
InitShutdown == Started(FALSE, MaxConcurrency) /\ call = ProcessRunning

NextShutdown ==
  \/ Serving /\ Submit(1, 1, "normal", FALSE)
  \/ Serving /\ SubmitAdd(1)
  \/ Fetching /\ \E j \in JobIds : Take(j)
  \/ Fetching /\ \E j \in JobIds : Promote(j)
  \/ Serving /\ \E j \in JobIds : WorkerCacheGet(j)
  \/ Serving /\ Backend({1})
  \/ Serving /\ \E j \in JobIds : WorkerCacheSet(j)
  \/ Serving /\ \E j \in JobIds : WorkerClear(j)
  \/ Serving /\ \E j \in JobIds : WorkerCatch(j)
  \/ Serving /\ \E j \in JobIds : Complete(j)
  \/ Serving /\ \E j \in JobIds : Fail(j)
  \/ Serving /\ \E id \in JobIds : AdminRetry(id)
  \/ Signal
  \/ QueueClose
  \/ ProcessExit

SpecShutdown == InitShutdown /\ [][NextShutdown]_vars

\* ------------------------------------------------------------ retention
\* The finished sets of the queue under defaultJobOptions: the jobs kept in
\* `completed` and in `failed`, oldest first.  Jobs are numbered in the
\* order they finish.

\* Mutant of KeepCount: one job more is kept.
KeepCountOneMore(kind) ==
  IF kind = "completed" THEN RemoveOnComplete + 1 ELSE RemoveOnFail + 1
KeepCount(kind) ==
  IF kind = "completed" THEN RemoveOnComplete ELSE RemoveOnFail

\* The newest n jobs of a finished set.
KeepNewest(set, n) ==
  IF Len(set) > n THEN SubSeq(set, Len(set) - n + 1, Len(set)) ELSE set

\* How the job with this id ends in a workload where every failEvery-th
\* job exhausts its attempts (none when failEvery is 0).
OutcomeOf(id, failEvery) ==
  IF failEvery > 0 /\ id % failEvery = 0 THEN "failed" ELSE "completed"

\* The next job reaches its terminal state: it is added to the finished
\* set of its kind and the set is cut down to the count the job's
\* removeOnComplete / removeOnFail option gives.
MoveToFinished ==
  /\ call.op = "retain" /\ call.next <= MaxFinished
  /\ LET kind == OutcomeOf(call.next, call.failEvery)
         kept == KeepNewest(Append(call[kind], call.next), KeepCount(kind))
     IN  call' = [call EXCEPT ![kind] = kept, !.next = @ + 1]
  /\ answer' = NoAnswer
  /\ UNCHANGED <<dedupEnabled, concurrency, store, marker, jobs, wait, nextId, reqs, faults>>
  /\ UNCHANGED lookup

\* GET /query/:jobId against the finished sets: queue.getJob finds a job
\* that is kept and none for any other id.
RetentionLookup(id) ==
  /\ call.op = "retain"
  /\ answer' =
       IF id \in SeqToSet(call.completed) THEN
         [hash |-> 0, status |-> "status", jobId |-> id, state |-> "completed",
          result |-> 1, error |-> NoError]
       ELSE IF id \in SeqToSet(call.failed) THEN
         [hash |-> 0, status |-> "status", jobId |-> id, state |-> "failed",
          result |-> Null, error |-> "failed"]
       ELSE NotFound(id)
  /\ UNCHANGED <<dedupEnabled, concurrency, store, marker, jobs, wait, nextId, reqs, faults>>
  /\ UNCHANGED <<lookup, call>>

InitRetention ==
  \E p \in 0..MaxFailEvery :
    /\ Started(FALSE, DefaultConcurrency)
    /\ call = [op |-> "retain", failEvery |-> p, next |-> 1,
               completed |-> <<>>, failed |-> <<>>]

NextRetention ==
  \/ MoveToFinished
  \/ \E id \in 1..MaxLookupId : RetentionLookup(id)

SpecRetention == InitRetention /\ [][NextRetention]_vars

\* ------------------------------------------------------ intent detection
\* A query text as the words between its word boundaries.  The words of a
\* query come from one keyword or two of every domain, in lower and in
\* upper case, and one word that is no keyword.
IntentWords == {"api", "FETCH", "sql", "SELECT", "file", "class", "life"}

IntentQueries == UNION {[1..n -> IntentWords] : n \in 0..MaxWords}

\* The /i flag of the patterns: a word is compared in lower case.
LowerWord(w) ==
  CASE w = "FETCH" -> "fetch"
    [] w = "SELECT" -> "select"
    [] OTHER -> w

\* The patterns of detectIntent in the order of the array; the check
\* order of the earlier revision of the function.
patternsByObjectKeys ==
  << [intent |-> "database",
      words |-> {"sql", "database", "table", "schema", "select", "insert", "update",
                 "delete", "join"}],
     [intent |-> "filesystem",
      words |-> {"file", "folder", "directory", "path", ".txt", ".json", ".csv", ".md"}],
     [intent |-> "web",
      words |-> {"http", "api", "fetch", "url", "endpoint", "rest", "graphql"}],
     [intent |-> "code",
      words |-> {"function", "class", "implement", "refactor", "debug", "method",
                 "variable"}] >>
patterns ==
  << [intent |-> "web",
      words |-> {"http", "api", "fetch", "url", "endpoint", "rest", "graphql"}],
     [intent |-> "database",
      words |-> {"sql", "database", "table", "schema", "select", "insert", "update",
                 "delete", "join"}],
     [intent |-> "filesystem",
      words |-> {"file", "folder", "directory", "path", ".txt", ".json", ".csv", ".md"}],
     [intent |-> "code",
      words |-> {"function", "class", "implement", "refactor", "debug", "method",
                 "variable"}] >>

\* pattern.test(query): some word of the query is one of the alternatives.
PatternTest(pattern, query) ==
  \E i \in 1..Len(query) : LowerWord(query[i]) \in pattern.words

\* The loop of detectIntent from the i-th pattern on.
RECURSIVE DetectIntentFrom(_, _)
DetectIntentFrom(i, query) ==
  IF i > Len(patterns) THEN "general"
  ELSE IF PatternTest(patterns[i], query) THEN patterns[i].intent
  ELSE DetectIntentFrom(i + 1, query)

detectIntent(query) == DetectIntentFrom(1, query)

\* MCP_SERVERS[intent], undefined for an intent that is no key.
MCP_SERVERS(intent) ==
  CASE intent = "database" -> "sqlite"
    [] intent = "filesystem" -> "filesystem"
    [] intent = "web" -> "fetch"
    [] intent = "code" -> "github"
    [] OTHER -> Nil

getServersForQuery(enabled, query) ==
  IF ~enabled THEN <<>>
  ELSE LET server == MCP_SERVERS(detectIntent(query))
       IN  IF server # Nil THEN <<server>> ELSE <<>>

\* detectIntent(query) and mcp.getServersForQuery(query) called on a query.
RouteQuery ==
  /\ call.op = "intent" /\ ~call.done
  /\ call' = [call EXCEPT !.intent = detectIntent(call.query),
                          !.servers = getServersForQuery(call.enabled, call.query),
                          !.done = TRUE]
  /\ UNCHANGED <<dedupEnabled, concurrency, store, marker, jobs, wait, nextId, reqs, faults>>
  /\ UNCHANGED <<answer, lookup>>

\* The intent detection and the router called on their own, with the MCP
\* feature on and off.
InitIntent ==
  \E q \in IntentQueries, e \in BOOLEAN :
    /\ Started(FALSE, DefaultConcurrency)
    /\ call = [op |-> "intent", query |-> q, enabled |-> e, intent |-> Nil,
               servers |-> <<>>, done |-> FALSE]

NextIntent == RouteQuery

SpecIntent == InitIntent /\ [][NextIntent]_vars

TypeOK ==
  /\ dedupEnabled \in BOOLEAN
  /\ \A h \in Hashes : marker[h] \in 0..MaxJobs
  /\ nextId \in 1..(MaxJobs + 1)
  /\ faults \in 0..MaxFaults
  /\ SeqToSet(wait) = InState(jobs, "waiting")
  /\ Len(wait) = Cardinality(SeqToSet(wait))

\* ================================================================ claims
Live == {"waiting", "active", "delayed"}

\* Position of job j in the wait list q (0 when absent).
RECURSIVE IndexOf(_, _)
IndexOf(q, j) == IF q = <<>> THEN 0
                 ELSE IF Head(q) = j THEN 1
                 ELSE IF IndexOf(Tail(q), j) = 0 THEN 0 ELSE 1 + IndexOf(Tail(q), j)

Before(q, a, b) == IndexOf(q, a) # 0 /\ IndexOf(q, b) # 0 /\ IndexOf(q, a) < IndexOf(q, b)

\* C1: a submission that started, without a cache entry, while a job j
\* answered queued for the same fingerprint was waiting or active in its
\* first attempt, and whose in-flight lookup happens while that still holds,
\* is answered duplicate with jobId = j and adds no job.
C1_DuplicateOfQueued ==
  [][\A r \in Reqs :
       (reqs[r].pc = "dedup" /\ reqs'[r].pc # "dedup") =>
         \A j \in reqs[r].prior :
           (/\ jobs[j].state \in {"waiting", "active"}
            /\ jobs[j].attemptsMade = 0
            /\ store[reqs[r].hash] = Nil)
           => (/\ answer'.status = "duplicate"
               /\ answer'.jobId = j
               /\ reqs'[r].pc = "idle"
               /\ jobs' = jobs /\ wait' = wait)]_vars

\* C2: two concurrent submissions of one fingerprint that had no job, cache
\* entry or marker before never both add a job (never both stand between
\* queue.add and markInFlight).
C2_AtMostOneQueued ==
  \A r1, r2 \in Reqs :
    (/\ r1 # r2
     /\ reqs[r1].pc = "mark" /\ reqs[r2].pc = "mark"
     /\ reqs[r1].hash = reqs[r2].hash)
    => \E j \in JobIds : /\ j \notin {reqs[r1].jobId, reqs[r2].jobId}
                         /\ jobs[j].hash = reqs[r1].hash

\* C3: no two jobs of one fingerprint are inside claude.execute at once.
C3_OneExecutionPerHash ==
  \A j1, j2 \in JobIds :
    (j1 # j2 /\ jobs[j1].pc = "exec" /\ jobs[j2].pc = "exec")
    => jobs[j1].hash # jobs[j2].hash

\* C4: when a job leaves the active state, by whichever exit path of the
\* processor, the marker of its fingerprint is absent.
C4_MarkerAbsentOnExit ==
  [][\A j \in JobIds :
       (jobs[j].state = "active" /\ jobs'[j].state # "active")
       => marker[jobs[j].hash] = NoJobId]_vars

\* The cache-hit exit of C4 alone: a job that returns the cached value
\* leaves the active state with the marker of its fingerprint absent.
CacheHitExitClearsMarker ==
  [][\A j \in JobIds :
       (jobs[j].pc = "hitreturn" /\ jobs'[j].state = "completed")
       => marker[jobs[j].hash] = NoJobId]_vars

\* C5: a webhook delivery that fails for good never fails the job: no job is
\* failed or scheduled for a retry with the delivery error as its reason.
C5_DeliveryNeverFailsJob ==
  \A j \in JobIds :
    ~(jobs[j].state \in {"failed", "delayed"} /\ jobs[j].failedReason = "webhook")

\* C6: the number of active jobs, and so of backend invocations running at
\* once, never exceeds the configured concurrency.
C6_BoundedConcurrency ==
  /\ Cardinality(InState(jobs, "active")) <= concurrency
  /\ Cardinality({j \in JobIds : jobs[j].pc = "exec"}) <= concurrency

\* C6 witness: every worker is busy while a job waits.
C6_Witness ==
  /\ Cardinality(InState(jobs, "active")) = concurrency
  /\ wait # <<>>

\* C7: a marker always names a waiting, active or delayed job, and a
\* duplicate answer never names a finished job.
C7_MarkerNamesLiveJob ==
  /\ \A h \in Hashes : marker[h] # NoJobId => jobs[marker[h]].state \in Live
  /\ answer.status = "duplicate" => jobs[answer.jobId].state \in Live

\* C8: while a job of the fingerprint that was answered queued is delayed,
\* waiting or active after a failed attempt, the in-flight lookup of a
\* submission answers duplicate with that job's id and the handler does not
\* go on to add a job.
C8_DuplicateDuringRetry ==
  [][\A r \in Reqs :
       (reqs[r].pc = "dedup" /\ reqs'[r].pc # "dedup") =>
         \A j \in JobIds :
           (/\ jobs[j].hash = reqs[r].hash
            /\ jobs[j].attemptsMade >= 1
            /\ jobs[j].state \in Live
            /\ Acked(j))
           => (answer'.status = "duplicate" /\ answer'.jobId = j)]_vars

\* C9: once a job of fingerprint h has completed and while the cache holds
\* an entry for h, every submission of h is answered cached, with the
\* result the job completed with, and starts no handler that adds a job.
C9_CachedAfterCompletion ==
  [][\A h \in Hashes :
       (store[h] # Nil /\ \E j \in JobIds : jobs[j].state = "completed" /\ jobs[j].hash = h)
       => /\ \A r \in Reqs : ~(reqs[r].pc = "idle" /\ reqs'[r].pc # "idle" /\ reqs'[r].hash = h)
          /\ (answer'.status = "cached" /\ answer'.hash = h)
             => \A j \in JobIds : (jobs[j].state = "completed" /\ jobs[j].hash = h)
                                  => answer'.result = jobs[j].returnvalue]_vars

C11_FailsAfterThreeAttempts ==
  [][\A j \in JobIds :
       /\ jobs'[j].state = "failed" <=> jobs'[j].attemptsMade = Attempts
       /\ (jobs[j].state = "active" /\ jobs'[j].state = "failed")
            => (jobs[j].error # "-" /\ jobs'[j].failedReason = jobs[j].error)
       /\ jobs[j].state = "failed" => jobs'[j] = jobs[j]
       /\ (/\ lookup.pc = "getState" /\ lookup'.pc = "idle"
           /\ lookup.jobId = j /\ lookup.job.state = "failed")
            => (/\ answer'.status = "status"
                /\ answer'.jobId = j
                /\ answer'.state = "failed"
                /\ answer'.error = jobs[j].failedReason
                /\ answer'.result = Null)]_vars

\* C11 witness: a lookup has reported a job failed after three attempts, the
\* last of which failed in the webhook delivery.
C11_Witness ==
  /\ answer.status = "status"
  /\ answer.state = "failed"
  /\ answer.error = "webhook"
  /\ jobs[answer.jobId].attemptsMade = Attempts

\* C12: a job whose first attempt fails is delayed by at least the base
\* backoff delay and is not taken again before that delay has passed
\* (a delayed job only moves to the wait list, by its promotion); when its
\* second attempt returns, it is completed with that attempt's result.
C12_RetryAfterBackoff ==
  [][\A j \in JobIds :
       /\ (jobs[j].attemptsMade = 0 /\ jobs'[j].attemptsMade = 1)
            => (/\ jobs[j].state = "active"
                /\ jobs'[j].state = "delayed"
                /\ jobs'[j].delay >= BackoffDelay)
       /\ (jobs[j].state = "delayed" /\ jobs'[j] # jobs[j])
            => (jobs'[j].state = "waiting" /\ jobs'[j].attemptsMade = jobs[j].attemptsMade)
       /\ (jobs'[j].state = "active" /\ jobs[j].state # "active")
            => jobs[j].state = "waiting"
       /\ (jobs[j].state = "active" /\ jobs[j].attemptsMade = 1
           /\ jobs[j].pc \in {"return", "hitreturn"} /\ jobs'[j] # jobs[j])
            => (/\ jobs'[j].state = "completed"
                /\ jobs'[j].returnvalue = jobs[j].result
                /\ jobs'[j].returnvalue # Null)]_vars

\* C12 witness: a job completed in its second attempt with a result of the
\* backend.
C12_Witness ==
  \E j \in JobIds :
    /\ jobs[j].state = "completed"
    /\ jobs[j].attemptsMade = 1
    /\ jobs[j].returnvalue \in {1, 2}

\* C13: with fair workers and a backend and a webhook endpoint that always
\* answer, every job in the queue (waiting, active or delayed) eventually is
\* completed or failed, whatever happened to the other jobs.
C13_EveryJobSettles ==
  \A j \in JobIds :
    (jobs[j].state \in Live) ~> (jobs[j].state \in {"completed", "failed"})

\* C13 witness: a job failed for good with an execution error and a job
\* added after it was completed by the same single worker.
C13_Witness ==
  \E j, k \in JobIds :
    /\ j < k
    /\ jobs[j].state = "failed" /\ jobs[j].failedReason = "execution"
    /\ jobs[k].state = "completed"

C15_DeliveryAttempts ==
  (call.op = "deliver" /\ call.outcome # "pending") =>
    IF call.fails < call.maxRetries
    THEN call.posts = call.fails + 1 /\ call.outcome = "ok"
    ELSE call.posts = call.maxRetries /\ call.outcome = "throw"

\* C15 witness: an endpoint that failed twice and then succeeded was
\* delivered to with the third POST.
C15_Witness ==
  /\ call.op = "deliver" /\ call.maxRetries = 3 /\ call.fails = 2
  /\ call.posts = 3 /\ call.outcome = "ok"

\* C16: a submission whose cache lookup or in-flight lookup fails with a
\* store error is answered with the error and ends there: it adds no job,
\* writes no marker and no cache entry, and no handler goes on to enqueue.
C16_StoreErrorAborts ==
  [][answer'.status = "error" =>
       /\ jobs' = jobs /\ wait' = wait /\ nextId' = nextId
       /\ marker' = marker /\ store' = store
       /\ \A r \in Reqs : reqs'[r] = reqs[r] \/ reqs'[r] = IdleReq]_vars

\* C16 witness: a submission has just been answered with a store error
\* while a job of its fingerprint is in the queue and marked in flight.
C16_Witness ==
  /\ answer.status = "error"
  /\ \A r \in Reqs : reqs[r].pc = "idle"
  /\ \E j \in JobIds : /\ jobs[j].hash = answer.hash /\ jobs[j].state \in Live
                         /\ marker[answer.hash] = j

\* C17: two requests whose texts normalize to the same text and whose
\* contexts are equal as key-value maps, in whatever order their keys were
\* written, get the same fingerprint.
C17_EqualRequestsEqualHash ==
  (/\ call.op = "hash" /\ call.done
   /\ normalizeQuery(call.query1) = normalizeQuery(call.query2)
   /\ ContextMap(call.context1) = ContextMap(call.context2))
  => call.hash1 = call.hash2

\* C18: two requests whose normalized texts differ or whose contexts differ
\* as key-value maps are hashed from different payloads, whatever keys the
\* contexts hold.
C18_DistinctRequestsDistinctHash ==
  (/\ call.op = "hash" /\ call.done
   /\ \/ normalizeQuery(call.query1) # normalizeQuery(call.query2)
      \/ ContextMap(call.context1) # ContextMap(call.context2))
  => call.hash1 # call.hash2

\* C19: cache.get(h) returns the value of the last cache.set of h when no
\* delete, clear or expiry of h came after it, and null (without an error)
\* when h was never set or was deleted, cleared or expired since.
C19_GetReturnsLastSet ==
  call.op = "get" =>
    IF call.held[call.hash] = {} THEN call.out = Null
    ELSE call.held[call.hash] = {call.out}

\* C19 witness: the JSON number 0 was set and read back while another
\* fingerprint has no entry.
C19_Witness ==
  /\ call.op = "get" /\ call.out = 0 /\ call.held[call.hash] = {0}
  /\ \E h \in Hashes : h # call.hash /\ store[h] = Nil

\* C20: a submission whose query is missing or empty is answered 400 and
\* changes neither the cache, the tracker nor the queue: a step that answers
\* 400 leaves them and the handlers as they were, and no handler, job, marker
\* or cache entry ever carries the fingerprint of the empty text.
C20_InvalidQueryRejected ==
  [][/\ answer'.status = "400"
          => (/\ store' = store /\ marker' = marker
              /\ jobs' = jobs /\ wait' = wait /\ nextId' = nextId
              /\ reqs' = reqs)
     /\ \A r \in Reqs : reqs'[r].hash # HashIndex(<<>>)
     /\ \A j \in JobIds : jobs'[j].hash # HashIndex(<<>>)
     /\ store'[HashIndex(<<>>)] = Nil /\ marker'[HashIndex(<<>>)] = NoJobId
     /\ answer'.hash # HashIndex(<<>>)]_vars

\* C20 witness: a request was just answered 400 while a job is in the queue
\* and marked in flight.
C20_Witness ==
  /\ answer.status = "400"
  /\ \E j \in JobIds : jobs[j].state \in Live /\ marker[jobs[j].hash] = j

C22_NoDedupWhenDisabled ==
  [][~dedupEnabled =>
       /\ answer'.status # "duplicate"
       /\ \A h \in Hashes : marker'[h] = NoJobId
       /\ \A r \in Reqs :
            /\ reqs'[r].pc \in {"idle", "add"}
            /\ (reqs[r].pc = "idle" /\ reqs'[r].pc = "add")
                 => ~Truthy(CacheGet(store, reqs'[r].hash))
            /\ (reqs[r].pc = "add" /\ reqs'[r] # reqs[r])
                 => (/\ jobs[nextId].state = "none"
                     /\ jobs'[nextId].state = "waiting"
                     /\ jobs'[nextId].hash = reqs[r].hash
                     /\ \A j \in JobIds \ {nextId} : jobs'[j] = jobs[j]
                     /\ reqs'[r].pc = "idle"
                     /\ answer'.status = "queued"
                     /\ answer'.jobId = nextId
                     /\ answer'.hash = reqs[r].hash)]_vars

\* C22 witness: a submission was just answered queued with its own job
\* while an earlier job of the same fingerprint is still in its first
\* attempt, waiting or active.
C22_Witness ==
  /\ ~dedupEnabled
  /\ answer.status = "queued"
  /\ \E j \in JobIds :
       /\ j # answer.jobId
       /\ jobs[j].hash = answer.hash
       /\ jobs[j].state \in {"waiting", "active"}
       /\ jobs[j].attemptsMade = 0

\* The steps of an administrative retry or remove.
AdminStep == answer'.status \in {"retry", "remove"}

\* C23 as stated: a job starts in waiting and changes state only along
\* waiting -> active, active -> completed, active -> failed, and while its
\* attempts made are below 3, failed -> delayed -> waiting; completed and
\* failed with the attempts exhausted are left only by an administrative
\* retry or remove.
C23_JobLifecycle ==
  [][~AdminStep =>
       \A j \in JobIds :
         jobs'[j].state # jobs[j].state =>
           \/ jobs[j].state = "none" /\ jobs'[j].state = "waiting"
           \/ jobs[j].state = "waiting" /\ jobs'[j].state = "active"
           \/ jobs[j].state = "active" /\ jobs'[j].state \in {"completed", "failed"}
           \/ /\ jobs[j].state = "failed" /\ jobs'[j].state = "delayed"
              /\ jobs[j].attemptsMade < Attempts
           \/ jobs[j].state = "delayed" /\ jobs'[j].state = "waiting"]_vars

\* C23 amended: a failed attempt with attempts left takes the job from
\* active straight to delayed, and the job is in state failed only with its
\* attempts exhausted; completed and failed jobs do not change at all
\* except by an administrative retry or remove, which take a failed job to
\* waiting and any job that is not active out of the queue.
C23_JobLifecycleAmended ==
  [][/\ ~AdminStep =>
          \A j \in JobIds :
            /\ jobs'[j].state # jobs[j].state =>
                 \/ jobs[j].state = "none" /\ jobs'[j].state = "waiting"
                 \/ jobs[j].state = "waiting" /\ jobs'[j].state = "active"
                 \/ jobs[j].state = "active" /\ jobs'[j].state = "completed"
                 \/ /\ jobs[j].state = "active" /\ jobs'[j].state = "failed"
                    /\ jobs'[j].attemptsMade >= Attempts
                 \/ /\ jobs[j].state = "active" /\ jobs'[j].state = "delayed"
                    /\ jobs'[j].attemptsMade < Attempts
                 \/ jobs[j].state = "delayed" /\ jobs'[j].state = "waiting"
            /\ jobs[j].state \in {"completed", "failed"} => jobs'[j] = jobs[j]
     /\ AdminStep =>
          \A j \in JobIds :
            jobs'[j].state # jobs[j].state =>
              \/ /\ answer'.status = "retry" /\ answer'.jobId = j
                 /\ jobs[j].state = "failed" /\ jobs'[j].state = "waiting"
              \/ /\ answer'.status = "remove" /\ answer'.jobId = j
                 /\ jobs[j].state # "active" /\ jobs'[j].state = "none"
     /\ \A j \in JobIds : jobs'[j].state = "failed" => jobs'[j].attemptsMade >= Attempts]_vars

\* C23 witness: a job that failed for good and was retried by the
\* administrator has completed.
C23_Witness ==
  \E j \in JobIds : jobs[j].state = "completed" /\ jobs[j].attemptsMade = Attempts

\* C24: the cache re-check of a worker whose job's fingerprint has a cache
\* entry takes the hit path: progress 100 and the cached value as result,
\* never claude.execute; the cached value is then delivered to the job's
\* webhook if it has one, and the job is completed with the cached value.
C24_CacheHitShortCircuits ==
  [][\A j \in JobIds :
       /\ (jobs[j].pc = "get" /\ jobs'[j].pc # "get" /\ store[jobs[j].hash] # Nil)
            => (/\ jobs'[j].pc = IF jobs[j].webhook THEN "hithook" ELSE "hitreturn"
                /\ jobs'[j].progress = 100
                /\ jobs'[j].result = JSONParse(store[jobs[j].hash]))
       /\ (jobs[j].pc = "hithook" /\ jobs'[j] # jobs[j])
            => (jobs'[j].pc = "hitreturn" /\ jobs'[j].result = jobs[j].result)
       /\ (jobs[j].pc = "hitreturn" /\ jobs'[j] # jobs[j])
            => (/\ jobs'[j].state = "completed"
                /\ jobs'[j].returnvalue = jobs[j].result
                /\ jobs'[j].progress = 100)]_vars

C26_SubmissionOrder ==
  [][dedupEnabled =>
       /\ \A r \in Reqs :
            /\ (reqs[r].pc = "idle" /\ reqs'[r].pc # "idle")
                 => (/\ reqs'[r].pc = "dedup"
                     /\ ~(store[reqs'[r].hash] # Nil /\ marker[reqs'[r].hash] # NoJobId))
            /\ (reqs[r].pc = "dedup" /\ reqs'[r].pc # "dedup")
                 => (reqs'[r].pc = "add" \/ answer'.status = "duplicate")
            /\ (reqs[r].pc = "add" /\ reqs'[r].pc # "add") => reqs'[r].pc = "mark"
            /\ (reqs[r].pc = "mark" /\ reqs'[r].pc # "mark") => answer'.status = "queued"
       /\ answer'.status \in {"cached", "duplicate"}
            => (/\ jobs' = jobs /\ wait' = wait /\ nextId' = nextId
                /\ marker' = marker /\ store' = store)
       /\ answer'.status = "queued"
            => (/\ marker'[answer'.hash] = answer'.jobId
                /\ jobs'[answer'.jobId].hash = answer'.hash
                /\ \E r \in Reqs : reqs[r].pc = "mark" /\ reqs[r].jobId = answer'.jobId)]_vars

\* C27: the progress of a job is one of the milestones 0, 10, 80, 90, 100
\* and never decreases, across the retry attempts of the queue and
\* concurrent cache clears as well; a completed job has progress 100.
C27_ProgressMonotone ==
  [][\A j \in JobIds :
       /\ jobs'[j].progress \in {0, 10, 80, 90, 100}
       /\ jobs'[j].state # "none" => jobs'[j].progress >= jobs[j].progress
       /\ jobs'[j].state = "completed" => jobs'[j].progress = 100]_vars

\* C28: the i-th sleep of withRetry, after the failed attempt i, lasts
\* baseDelay * 2^(i-1) capped at maxDelay; the sleeps never get shorter and
\* never exceed maxDelay; every sleep is followed by one more invocation of
\* the whole operation, and none follows the last allowed attempt.
C28_RetryDelays ==
  call.op = "withRetry" =>
    /\ \A i \in 1..Len(call.delays) :
         /\ call.delays[i] = IF call.baseDelay * 2 ^ (i - 1) <= call.maxDelay
                              THEN call.baseDelay * 2 ^ (i - 1) ELSE call.maxDelay
         /\ call.delays[i] <= call.maxDelay
         /\ i > 1 => call.delays[i - 1] <= call.delays[i]
    /\ call.calls <= call.maxRetries
    /\ call.outcome = "running" => Len(call.delays) = call.calls
    /\ call.outcome \in {"ok", "throw"} => Len(call.delays) = call.calls - 1
    /\ call.outcome = "throw" => call.calls = call.maxRetries

\* C28 witness: an operation that failed every time was given up after the
\* last allowed attempt, the last sleep before it cut to maxDelay.
C28_Witness ==
  /\ call.op = "withRetry" /\ call.outcome = "throw"
  /\ Len(call.delays) >= 2
  /\ call.delays[1] < call.maxDelay
  /\ call.delays[Len(call.delays)] = call.maxDelay
  /\ call.baseDelay * 2 ^ (Len(call.delays) - 1) > call.maxDelay

\* C29: an invocation of the backend that exits with code 0 resolves: with
\* the parsed value when its output parses as JSON, else with the plain-text
\* fallback holding the trimmed output; an invocation that exits with another
\* code or cannot be spawned rejects, with the exit code and the captured
\* stderr when it exited; a resolved invocation ends claude.execute, and
\* exactly the rejected ones are retried while attempts remain.
C29_ExitZeroIsSuccess ==
  [][(call.op = "execute" /\ call'.calls = call.calls + 1) =>
       LET p == call'.proc
           inv == call'.last
       IN  /\ (p.spawned /\ p.code = 0) =>
                /\ inv.settled = "resolve"
                /\ call'.outcome = "ok" /\ call'.attempt = call.attempt
                /\ IF Trim(p.stdout) # <<>> /\ \A i \in 1..Len(Trim(p.stdout)) : Trim(p.stdout)[i] = "1"
                   THEN inv.format = "json" /\ inv.number = JSONNumber(Trim(p.stdout))
                   ELSE inv.format = "text" /\ inv.response = Trim(p.stdout)
           /\ (~p.spawned \/ p.code # 0) =>
                /\ inv.settled = "reject"
                /\ p.spawned => (inv.code = p.code /\ inv.stderr = p.stderr)
                /\ IF call.attempt < ClaudeMaxRetries
                   THEN call'.outcome = "running" /\ call'.attempt = call.attempt + 1
                   ELSE call'.outcome = "throw"]_vars

\* C29 witness: after an invocation that exited non-zero was retried, the
\* next one exited 0 with output that is not JSON and resolved with the
\* trimmed text.
C29_Witness ==
  /\ call.op = "execute" /\ call.outcome = "ok" /\ call.calls = 2
  /\ call.last.format = "text"
  /\ call.last.response = <<"h">> /\ call.proc.stdout = <<" ", "h", " ">>

\* C30: a cache.clear() that returns has deleted exactly the cache entries,
\* returns the number of entries it deleted, and leaves the markers, the
\* jobs and the wait list as they were; when no entry was written since it
\* listed the keys, no cache entry is left right after it.
C30_ClearFrame ==
  [][answer'.status = "cleared" =>
       LET deleted == {h \in Hashes : store[h] # Nil /\ store'[h] = Nil}
       IN  /\ \A h \in Hashes : store'[h] # store[h] => store'[h] = Nil
           /\ answer'.cleared = Cardinality(deleted)
           /\ marker' = marker /\ jobs' = jobs /\ wait' = wait
           /\ nextId' = nextId /\ reqs' = reqs
           /\ (\A i \in 1..Len(call.pending) : CacheKeys(store) \subseteq call.pending[i])
                => CacheKeys(store') = {}]_vars

\* The frame of C30 alone: a cache.clear() that returns leaves the markers
\* and the queue as they were and deletes nothing but cache entries.
ClearLeavesTrackerAndQueue ==
  [][answer'.status = "cleared" =>
       /\ \A h \in Hashes : store'[h] # store[h] => store'[h] = Nil
       /\ marker' = marker /\ jobs' = jobs /\ wait' = wait
       /\ nextId' = nextId /\ reqs' = reqs
       /\ (\A i \in 1..Len(call.pending) : CacheKeys(store) \subseteq call.pending[i])
            => CacheKeys(store') = {}]_vars

\* The domains in the order the claim gives, and whether a keyword of the
\* k-th of them occurs in the query.
DomainOrder == <<"web", "database", "filesystem", "code">>

DomainKeywords ==
  [d \in {"web", "database", "filesystem", "code"} |->
     CASE d = "web" -> {"http", "api", "fetch", "url", "endpoint", "rest", "graphql"}
       [] d = "database" -> {"sql", "database", "table", "schema", "select", "insert",
                            "update", "delete", "join"}
       [] d = "filesystem" -> {"file", "folder", "directory", "path", ".txt", ".json",
                              ".csv", ".md"}
       [] OTHER -> {"function", "class", "implement", "refactor", "debug", "method",
                    "variable"}]

Mentions(query, k) ==
  \E i \in 1..Len(query) : LowerWord(query[i]) \in DomainKeywords[DomainOrder[k]]

C32_Retention ==
  [][call.op = "retain" =>
       /\ Len(call'.completed) <= 100 /\ Len(call'.failed) <= 50
       /\ \A kind \in {"completed", "failed"} :
            call'[kind] # call[kind] =>
              call'[kind] = IF Len(call[kind]) = (IF kind = "completed" THEN 100 ELSE 50)
                            THEN Append(Tail(call[kind]), call.next)
                            ELSE Append(call[kind], call.next)
       /\ \A id \in 1..MaxLookupId :
            (/\ answer'.status \in {"status", "404"} /\ answer'.jobId = id
             /\ id < call.next
             /\ id \notin SeqToSet(call.completed) \cup SeqToSet(call.failed))
              => (answer'.status = "404" /\ answer'.error = "Job not found")]_vars

\* C32 witness: 100 completed jobs are kept, the oldest of them is not the
\* first that completed, 50 failed jobs are kept, and the lookup of the
\* job that completed first answered 404.
C32_Witness ==
  /\ call.op = "retain" /\ call.failEvery = 3
  /\ Len(call.completed) = 100 /\ Head(call.completed) > 1
  /\ Len(call.failed) = 50
  /\ answer.status = "404" /\ answer.jobId = 1

\* C33: once shutdown has begun no job moves from waiting to active, and
\* when the queue connection is released every job that was active when
\* shutdown began is completed or failed.
C33_GracefulShutdown ==
  [][call.op = "process" =>
       /\ call.pc # "running" =>
            \A j \in JobIds : ~(jobs[j].state = "waiting" /\ jobs'[j].state = "active")
       /\ (call.pc = "closing" /\ call'.pc = "closed") =>
            \A j \in call.processing : jobs'[j].state \in {"completed", "failed"}
       /\ call'.pc = "exited" => call.pc \in {"closed", "exited"}]_vars

\* C33 amended: once shutdown has begun no job moves from waiting to
\* active, and every job that was active when shutdown began has ended its
\* running attempt before the queue connection is released and the process
\* exits: the attempt ended with the job completed, failed, or, with
\* attempts left, delayed for a retry.
C33_GracefulShutdownAmended ==
  [][call.op = "process" =>
       /\ call.pc # "running" =>
            \A j \in JobIds : ~(jobs[j].state = "waiting" /\ jobs'[j].state = "active")
       /\ (call.pc = "closing" /\ call'.pc = "closed") => InState(jobs', "active") = {}
       /\ \A j \in JobIds :
            (jobs[j].state = "active" /\ jobs'[j].state # "active") =>
              /\ jobs'[j].state \in {"completed", "failed", "delayed"}
              /\ jobs'[j].state = "delayed" <=>
                   (jobs[j].pc = "throw" /\ jobs[j].attemptsMade + 1 < Attempts)
       /\ call.pc \in {"closed", "exited"} => jobs' = jobs
       /\ call'.pc = "exited" => call.pc \in {"closed", "exited"}]_vars

\* C33 witness: the process has exited; of the two jobs that were active
\* when shutdown began one is completed and one is delayed for a retry.
C33_Witness ==
  /\ call.op = "process" /\ call.pc = "exited"
  /\ call.processing = {1, 2}
  /\ jobs[1].state = "completed" /\ jobs[2].state = "delayed"

\* C34: every cache.get increments exactly one counter, cacheHits when it
\* found an entry and cacheMisses when it returned null for want of one,
\* so hits + misses is the number of get calls made.
C34_GetsCounted ==
  [][(call.op = "metrics" /\ call'.gets = call.gets + 1) =>
       /\ call'.cacheHits = call.cacheHits + (IF call'.hit THEN 1 ELSE 0)
       /\ call'.cacheMisses = call.cacheMisses + (IF call'.hit THEN 0 ELSE 1)
       /\ call'.cacheHits + call'.cacheMisses = call'.gets]_vars

\* C35: an attempt of a job that retries after its webhook delivery failed
\* and finds the cache entry of its query still there does not invoke the
\* backend again: it takes the cached result and goes on to deliver or
\* return it.
C35_NoSecondInvocation ==
  [][\A j \in JobIds :
       (/\ jobs[j].state = "active" /\ jobs[j].pc = "get"
        /\ jobs[j].attemptsMade >= 1 /\ jobs[j].failedReason = "webhook"
        /\ store[jobs[j].hash] # Nil
        /\ jobs'[j].pc # "get")
         => /\ jobs'[j].pc \in {"hithook", "hitreturn"}
            /\ jobs'[j].result = CacheGet(store, jobs[j].hash)]_vars

\* C36: no job has more than 3 x 3 = 9 backend processes spawned for it,
\* and none is spawned for a job that is completed or failed: such a job
\* stays as it is and its count stays as it is.
C36_InvocationCeiling ==
  [][call.op = "spawns" =>
       \A j \in JobIds :
         /\ call'.spawned[j] <= 9
         /\ call'.spawned[j] >= call.spawned[j]
         /\ jobs[j].state \in {"completed", "failed"} =>
              (call'.spawned[j] = call.spawned[j] /\ jobs'[j].state = jobs[j].state)
         /\ call'.spawned[j] # call.spawned[j] => jobs[j].state = "active"]_vars

\* C36 witness: a job failed for good after nine backend processes, three
\* in each of its three attempts.
C36_Witness ==
  /\ call.op = "spawns"
  /\ \E j \in JobIds :
       /\ jobs[j].state = "failed" /\ jobs[j].attemptsMade = Attempts
       /\ call.spawned[j] = 9

\* C37: handling a submission that is answered cached or duplicate stores
\* its callback URL nowhere and sends no POST; every POST goes to the URL
\* stored in the job it is made for, which is a job that was queued with a
\* URL; no POST is made for a job without a URL.
C37_CallbackOnlyFromJob ==
  [][call.op = "posts" =>
       /\ answer'.status \in {"cached", "duplicate"} =>
            (call' = call /\ jobs' = jobs /\ nextId' = nextId)
       /\ \A u \in call'.posted \ call.posted :
            \E j \in JobIds : /\ jobs[j].state = "active" /\ jobs[j].webhook
                              /\ call.stored[j] = u /\ u # NoUrl
                              /\ jobs'[j].pc # jobs[j].pc
       /\ \A j \in JobIds :
            /\ j \in call'.for =>
                 (jobs[j].webhook /\ call.stored[j] \in call'.posted)
            /\ call.stored[j] = NoUrl => j \notin call'.for
            /\ jobs[j].state # "none" => call'.stored[j] = call.stored[j]]_vars

\* C37 witness: a request with a URL was answered duplicate of a job that
\* was queued with another URL; later that job's URL received a POST and
\* the URL of the duplicate did not.
C37_Witness ==
  /\ call.op = "posts"
  /\ call.stored[1] = UrlOf(1) /\ call.posted = {UrlOf(1)} /\ nextId = 2
  /\ call.for = {1} /\ jobs[1].state = "completed"
  /\ answer.status = "duplicate" /\ answer.jobId = 1

\* C38: whatever maxRetries is, a withRetry call that has settled has
\* invoked the operation at least once and at most max(1, maxRetries)
\* times; it resolved with the value of the first invocation that
\* succeeded, or rejected with the error of the last one.
C38_InvokesAtLeastOnce ==
  (call.op = "withRetry" /\ call.outcome # "running") =>
    /\ call.calls >= 1
    /\ call.calls <= (IF call.maxRetries > 1 THEN call.maxRetries ELSE 1)
    /\ call.outcome \in {"ok", "throw"}
    /\ call.outcome = "ok" => call.calls = call.fails + 1
    /\ call.outcome = "throw" => call.calls <= call.fails

\* C39: whether a lookup is a hit does not depend on the value stored: a
\* submission goes on past its cache check, and a worker goes on from its
\* re-check to the backend, only when no entry is stored for the query.
C39_HitWhateverValue ==
  [][/\ \A r \in Reqs :
          (reqs[r].pc = "idle" /\ reqs'[r].pc # "idle") => store[reqs'[r].hash] = Nil
     /\ \A j \in JobIds :
          (jobs[j].state = "active" /\ jobs[j].pc = "get" /\ jobs'[j].pc = "exec")
            => store[jobs[j].hash] = Nil]_vars

====
